---- MODULE Spec2Model ----
(***************************************************************************)
(* riscv-rt: reset-time boot sequence (start_rust) and trap dispatch       *)
(* (start_trap_rust, _nxti_trap_handler), as state machines.               *)
(***************************************************************************)
EXTENDS Integers, Sequences, FiniteSets, TLC

(* ------------------------------ bounds -------------------------------- *)
\* number of harts that come out of reset; hart h has mhartid = h
NumHarts == 2
\* largest length, in words, of the .bss and of the .data region
MaxLen == 2

Harts == 0 .. (NumHarts - 1)
\* RAM: .data at [sdata, edata), .bss at [sbss, ebss), one word after them
RamWords == 2 * MaxLen + 1
Addr == 0 .. (RamWords - 1)

VARIABLES
    smode,          \* cfg(feature = "s-mode")
    hook,           \* which _mp_hook is linked: "default" or "custom"
    max_hart_id,    \* the _max_hart_id symbol
    sbss, ebss,     \* boundaries of .bss
    sdata, edata,   \* boundaries of .data
    mem,            \* RAM, word addressed
    pc,             \* per hart: the next step of _start / start_rust
    a0, a1, a2,     \* per hart: the argument registers at reset
    hartid,         \* per hart: start_rust's local `hartid`
    ret,            \* per hart: what _mp_hook returned ("none" before)
    ptr,            \* per hart: the running pointer of zero_bss / init_data
    claimed,        \* custom hook: it has answered true to some hart
    log,            \* per hart: the calls start_rust has made, in order
    writers,        \* per RAM word: the harts that have written it
    ram0,           \* the memory as it was at reset
    mtvec,          \* per hart: the trap vector register (address, modes)
    mtvt            \* per hart: the vector table base register

bootVars == <<smode, hook, max_hart_id, sbss, ebss, sdata, edata, mem, pc,
              a0, a1, a2, hartid, ret, ptr, claimed, log, writers, ram0,
              mtvec, mtvt>>

\* the trap side: one hart, after boot
VARIABLES
    build,          \* "direct" (no clic feature), "clic", "nxti" (clic + nxti)
    defaults,       \* DefaultHandler and ExceptionHandler are the crate's own
    attr,           \* CLIC: the attribute byte (clicintattr) of each id
    mie,            \* mstatus.MIE, the global interrupt enable
    mil,            \* the interrupt level the hart runs at (0: none)
    mcause,         \* the cause register: irq, code, mpil, mpie
    mepc,           \* the return address register: the interrupted context
    ip,             \* CLIC: ids whose pending bit (clicintip) is set
    ie,             \* CLIC: ids whose enable bit (clicintie) is set
    stack,          \* the trap episodes in flight, innermost last
    last,           \* the trap episode that returned last, if any
    ntraps,         \* the number of trap entries so far
    nraised         \* the number of interrupts raised after the start

\* what the build and the link fix, and what no trap code writes
cfgVars == <<build, defaults, attr>>

trapVars == <<cfgVars, mie, mil, mcause, mepc, ip, ie, stack, last, ntraps,
              nraised>>

\* the activations of _nxti_trap_handler or of an interrupt_handler wrapper,
\* followed instruction by instruction: the innermost one, and the ones a
\* nested trap has suspended
VARIABLES
    prog,           \* "nxti", "wrapper", or "none"
    ipc,            \* the index of the next instruction
    amie,           \* mstatus.MIE
    sp,             \* the stack pointer, a byte offset into the stack
    reg,            \* the general registers the frame holds
    csr,            \* mcause and mepc
    fmem,           \* the stack, word by word
    slog,           \* the stores done: slot and value
    rlog,           \* the registers restored, in order
    nested_at,      \* the instruction indices at which a trap nested
    iters,          \* the turns of the mnxti loop that found an interrupt
    in_h,           \* the called handler runs
    ereg,           \* the general registers at the activation's entry
    ecsr,           \* mcause and mepc at the activation's entry
    esp,            \* sp at the activation's entry
    outer           \* the suspended activations, outermost first

\* what belongs to the activations in flight as a whole
actVars == <<ereg, ecsr, esp, outer>>

asmVars == <<prog, ipc, amie, sp, reg, csr, fmem, slog, rlog, nested_at,
             iters, in_h, actVars>>

\* no activation is followed instruction by instruction
AsmIdle ==
    /\ prog = "none"
    /\ ipc = 0
    /\ amie = FALSE
    /\ sp = 0
    /\ reg = << >>
    /\ csr = << >>
    /\ fmem = << >>
    /\ slog = << >>
    /\ rlog = << >>
    /\ nested_at = {}
    /\ iters = 0
    /\ in_h = FALSE
    /\ ereg = << >>
    /\ ecsr = << >>
    /\ esp = 0
    /\ outer = << >>

\* ---- the memory-mapped register accessors (src/clic.rs) ----
VARIABLES
    rmem,       \* rmem[m][a]: the byte at offset a from the base of mapper m
    racc        \* the last access: kind, field, value, memory before, result

regVars == <<rmem, racc>>

\* no register has been accessed
RegIdle ==
    /\ rmem = << >>
    /\ racc = << >>

\* ---- #[interrupt_handler] and interrupt_vector ----
VARIABLES
    uses,       \* the #[interrupt_handler(..)] items of the program
    symtab,     \* the symbols their expansion defines
    vtaken      \* the last dispatch through interrupt_vector, if any

vecVars == <<uses, symtab, vtaken>>

\* a program without #[interrupt_handler]
VecIdle ==
    /\ uses = {}
    /\ symtab = {}
    /\ vtaken = << >>

vars == <<bootVars, trapVars, asmVars, regVars, vecVars>>

(* ------------------------------ helpers ------------------------------- *)
\* a call recorded in the log: name and up to three arguments
Ev(op, x, y, z) == [op |-> op, x |-> x, y |-> y, z |-> z]

Ops(h) == [i \in 1 .. Len(log[h]) |-> log[h][i].op]

Calls(h, op) == Cardinality({i \in 1 .. Len(log[h]) : log[h][i].op = op})

\* the hart id register of hart h
mhartid(h) == h

\* the initial values of .data are stored in flash, after the RAM
Flash == RamWords .. (RamWords + MaxLen - 1)

\* word i of the image the linker puts in flash at _sidata
Image(i) == i + 1

\* *sidata.offset(i): word i of the initial values of .data
sidata(i) == mem[RamWords + i]

\* RAM content at reset is unspecified; the boot code never reads it
Unspecified == 0 - 1

\* memory at reset: RAM holding w in every word, and the image in flash
Memory(w) ==
    [a \in Addr \cup Flash |-> IF a \in Flash THEN Image(a - RamWords) ELSE w]

(* ------------------------- _setup_interrupts -------------------------- *)
\* the address of the vector table the CLIC is given in mtvt
interrupt_vector == 128

\* xtvec::write(addr, mode) and xtvec::write(addr, submode, mode): the
\* value of the trap vector register after the call
xtvec_write(addr, submode, mode) ==
    [addr |-> addr, submode |-> submode, mode |-> mode]

\* the trap vector and vector table base registers out of reset
Reset == [mtvec |-> xtvec_write("reset", "none", "Direct"), mtvt |-> 0]

\* the mutant of default_setup_interrupts: with clic, always _start_trap
default_setup_interrupts_no_nxti(b, csrs) ==
    IF b = "direct"
    THEN [csrs EXCEPT !.mtvec = xtvec_write("_start_trap", "none", "Direct")]
    ELSE [mtvec |-> xtvec_write("_start_trap", "Default", "Clic"),
          mtvt |-> interrupt_vector]

\* default_setup_interrupts in build b: the two registers after the call
default_setup_interrupts(b, csrs) ==
    IF b = "direct"
    THEN [csrs EXCEPT !.mtvec = xtvec_write("_start_trap", "none", "Direct")]
    ELSE [mtvec |-> IF b = "nxti"
                    THEN xtvec_write("_nxti_trap_handler", "Default", "Clic")
                    ELSE xtvec_write("_start_trap", "Default", "Clic"),
          mtvt |-> interrupt_vector]

(* ------------------------------- Init --------------------------------- *)
\* the cause register: interrupt flag, code, previous level, previous MIE
Cause(irq, code, mpil, mpie) ==
    [irq |-> irq, code |-> code, mpil |-> mpil, mpie |-> mpie]

\* the trap side before any trap
TrapIdle ==
    /\ mie = TRUE
    /\ mil = 0
    /\ mcause = Cause(FALSE, 0, 0, FALSE)
    /\ mepc = 0
    /\ stack = <<>>
    /\ last = <<>>
    /\ ntraps = 0
    /\ nraised = 0

Init ==
    /\ build = "direct"
    /\ defaults = TRUE
    /\ attr = << >>
    /\ ip = {}
    /\ ie = {}
    /\ TrapIdle
    /\ AsmIdle
    /\ RegIdle
    /\ VecIdle
    /\ smode \in BOOLEAN
    /\ hook \in {"default", "custom"}
    /\ max_hart_id \in Harts
    /\ \E dl \in {0, MaxLen}, bl \in {0, MaxLen} :
          /\ sdata = 0
          /\ edata = dl
          /\ sbss = dl
          /\ ebss = dl + bl
    /\ mem = Memory(Unspecified)
    /\ ram0 = mem
    /\ mtvec = [h \in Harts |-> Reset.mtvec]
    /\ mtvt = [h \in Harts |-> Reset.mtvt]
    /\ pc = [h \in Harts |-> "reset"]
    /\ \E shift \in {0, 1} : a0 = [h \in Harts |-> (h + shift) % NumHarts]
    /\ \E p \in {<<0, 1>>, <<1, 0>>} :
          /\ a1 = [h \in Harts |-> p[1]]
          /\ a2 = [h \in Harts |-> p[2]]
    /\ hartid = [h \in Harts |-> Unspecified]
    /\ ret = [h \in Harts |-> "none"]
    /\ ptr = [h \in Harts |-> 0]
    /\ claimed = FALSE
    /\ log = [h \in Harts |-> <<>>]
    /\ writers = [a \in Addr |-> {}]

(* ------------------------- _start (assembly) --------------------------- *)
\* the hart id _start compares with _max_hart_id
start_hartid(h) == IF smode THEN a0[h] ELSE mhartid(h)

\* the mutant of start: no hart is turned away
start_no_check(h) ==
    /\ pc[h] = "reset"
    /\ pc' = [pc EXCEPT ![h] = "start_rust"]
    /\ UNCHANGED <<trapVars, asmVars, regVars, vecVars, ram0, mtvec, mtvt, smode, hook, max_hart_id, sbss, ebss, sdata,
                   edata, mem,
                   a0, a1, a2, hartid, ret, ptr, claimed, log, writers>>

\* _start: harts with an id above _max_hart_id go to abort (an endless
\* loop), the others set up their stack and jump to _start_rust
start(h) ==
    /\ pc[h] = "reset"
    /\ pc' = [pc EXCEPT ![h] = IF start_hartid(h) > max_hart_id
                               THEN "abort" ELSE "start_rust"]
    /\ UNCHANGED <<trapVars, asmVars, regVars, vecVars, ram0, mtvec, mtvt, smode, hook, max_hart_id, sbss, ebss, sdata,
                   edata, mem,
                   a0, a1, a2, hartid, ret, ptr, claimed, log, writers>>

(* ------------------------------ _mp_hook ------------------------------- *)
\* mutants of default_mp_hook: every hart is elected; the others are not
\* held back
default_mp_hook_all_true(id) == "true"

default_mp_hook_no_wait(id) == IF id = 0 THEN "true" ELSE "false"

\* default_mp_hook: "true", or "park" for the loop around wfi
default_mp_hook(id) == IF id = 0 THEN "true" ELSE "park"

\* a replaced _mp_hook: true for at most one hart, false for the others
custom_mp_hook(id) == IF claimed THEN {"false"} ELSE {"true", "false"}

mp_hook(id) == IF hook = "default" THEN {default_mp_hook(id)}
               ELSE custom_mp_hook(id)

(* ----------------------------- start_rust ------------------------------ *)
\* the mutant of read_hartid: a0 in every build
read_hartid_a0(h) == a0[h]

\* #[cfg(feature = "s-mode")] let hartid = a0;
\* #[cfg(not(feature = "s-mode"))] let hartid = mhartid::read();
read_hartid(h) == IF smode THEN a0[h] ELSE mhartid(h)

\* the mutant of after_mp_hook: the initialization is not under the `if`
after_mp_hook_no_if(r) == IF r = "park" THEN "wfi" ELSE "pre_init"

\* if _mp_hook(hartid) { __pre_init(); ... } _setup_interrupts();
\* where start_rust continues once the hook has answered r
after_mp_hook(r) == CASE r = "true" -> "pre_init"
                      [] r = "false" -> "setup_interrupts"
                      [] OTHER -> "wfi"

\* let hartid = ...; if _mp_hook(hartid) {
start_rust_mp_hook(h) ==
    /\ pc[h] = "start_rust"
    /\ LET id == read_hartid(h) IN
       \E r \in mp_hook(id) :
          /\ hartid' = [hartid EXCEPT ![h] = id]
          /\ log' = [log EXCEPT ![h] = Append(@, Ev("mp_hook", id, 0, 0))]
          /\ ret' = [ret EXCEPT ![h] = IF r = "park" THEN "none" ELSE r]
          /\ claimed' = (claimed \/ (hook = "custom" /\ r = "true"))
          /\ pc' = [pc EXCEPT ![h] = after_mp_hook(r)]
    /\ UNCHANGED <<trapVars, asmVars, regVars, vecVars, ram0, mtvec, mtvt, smode, hook, max_hart_id, sbss, ebss, sdata,
                   edata, mem,
                   a0, a1, a2, ptr, writers>>

\* default_mp_hook, hartid /= 0: wfi; an interrupt wakes the hart up
wfi(h) ==
    /\ pc[h] = "wfi"
    /\ pc' = [pc EXCEPT ![h] = "woken"]
    /\ UNCHANGED <<trapVars, asmVars, regVars, vecVars, ram0, mtvec, mtvt, smode, hook, max_hart_id, sbss, ebss, sdata,
                   edata, mem,
                   a0, a1, a2, hartid, ret, ptr, claimed, log, writers>>

\* the mutant of default_mp_hook_loop: after a wake-up the hook answers false
default_mp_hook_loop_exits(h) ==
    /\ pc[h] = "woken"
    /\ ret' = [ret EXCEPT ![h] = "false"]
    /\ pc' = [pc EXCEPT ![h] = "setup_interrupts"]
    /\ UNCHANGED <<trapVars, asmVars, regVars, vecVars, ram0, mtvec, mtvt, smode, hook, max_hart_id, sbss, ebss, sdata,
                   edata, mem,
                   a0, a1, a2, hartid, ptr, claimed, log, writers>>

\* default_mp_hook, hartid /= 0: loop { .. }: back to the wfi
default_mp_hook_loop(h) ==
    /\ pc[h] = "woken"
    /\ pc' = [pc EXCEPT ![h] = "wfi"]
    /\ UNCHANGED <<trapVars, asmVars, regVars, vecVars, ram0, mtvec, mtvt, smode, hook, max_hart_id, sbss, ebss, sdata,
                   edata, mem,
                   a0, a1, a2, hartid, ret, ptr, claimed, log, writers>>

\* the mutant of start_rust_pre_init: __pre_init is not called
start_rust_pre_init_skipped(h) ==
    /\ pc[h] = "pre_init"
    /\ pc' = [pc EXCEPT ![h] = "zero_bss"]
    /\ UNCHANGED <<trapVars, asmVars, regVars, vecVars, ram0, mtvec, mtvt, smode, hook, max_hart_id, sbss, ebss, sdata,
                   edata, mem,
                   a0, a1, a2, hartid, ret, ptr, claimed, log, writers>>

\* __pre_init();
start_rust_pre_init(h) ==
    /\ pc[h] = "pre_init"
    /\ log' = [log EXCEPT ![h] = Append(@, Ev("pre_init", 0, 0, 0))]
    /\ pc' = [pc EXCEPT ![h] = "zero_bss"]
    /\ UNCHANGED <<trapVars, asmVars, regVars, vecVars, ram0, mtvec, mtvt, smode, hook, max_hart_id, sbss, ebss, sdata,
                   edata, mem,
                   a0, a1, a2, hartid, ret, ptr, claimed, writers>>

\* r0::zero_bss(&mut _sbss, &mut _ebss): the call
start_rust_zero_bss(h) ==
    /\ pc[h] = "zero_bss"
    /\ log' = [log EXCEPT ![h] = Append(@, Ev("zero_bss", sbss, ebss, 0))]
    /\ ptr' = [ptr EXCEPT ![h] = sbss]
    /\ pc' = [pc EXCEPT ![h] = "zero_bss_loop"]
    /\ UNCHANGED <<trapVars, asmVars, regVars, vecVars, ram0, mtvec, mtvt, smode, hook, max_hart_id, sbss, ebss, sdata,
                   edata, mem,
                   a0, a1, a2, hartid, ret, claimed, writers>>

\* the mutant of zero_bss: the loop runs while sbss <= ebss
zero_bss_past_end(h) ==
    /\ pc[h] = "zero_bss_loop"
    /\ IF ptr[h] <= ebss
       THEN /\ mem' = [mem EXCEPT ![ptr[h]] = 0]
            /\ writers' = [writers EXCEPT ![ptr[h]] = @ \cup {h}]
            /\ ptr' = [ptr EXCEPT ![h] = @ + 1]
            /\ pc' = pc
       ELSE /\ pc' = [pc EXCEPT ![h] = "init_data"]
            /\ UNCHANGED <<mem, writers, ptr>>
    /\ UNCHANGED <<trapVars, asmVars, regVars, vecVars, ram0, mtvec, mtvt, smode, hook, max_hart_id, sbss, ebss, sdata,
                   edata,
                   a0, a1, a2, hartid, ret, claimed, log>>

\* the mutant of zero_bss: the pointer is not advanced
zero_bss_no_advance(h) ==
    /\ pc[h] = "zero_bss_loop"
    /\ IF ptr[h] < ebss
       THEN /\ mem' = [mem EXCEPT ![ptr[h]] = 0]
            /\ writers' = [writers EXCEPT ![ptr[h]] = @ \cup {h}]
            /\ UNCHANGED <<pc, ptr>>
       ELSE /\ pc' = [pc EXCEPT ![h] = "init_data"]
            /\ UNCHANGED <<mem, writers, ptr>>
    /\ UNCHANGED <<trapVars, asmVars, regVars, vecVars, ram0, mtvec, mtvt, smode, hook, max_hart_id, sbss, ebss, sdata,
                   edata,
                   a0, a1, a2, hartid, ret, claimed, log>>

\* r0::zero_bss: while sbss < ebss { write_volatile(sbss, 0); sbss += 1 }
zero_bss(h) ==
    /\ pc[h] = "zero_bss_loop"
    /\ IF ptr[h] < ebss
       THEN /\ mem' = [mem EXCEPT ![ptr[h]] = 0]
            /\ writers' = [writers EXCEPT ![ptr[h]] = @ \cup {h}]
            /\ ptr' = [ptr EXCEPT ![h] = @ + 1]
            /\ pc' = pc
       ELSE /\ pc' = [pc EXCEPT ![h] = "init_data"]
            /\ UNCHANGED <<mem, writers, ptr>>
    /\ UNCHANGED <<trapVars, asmVars, regVars, vecVars, ram0, mtvec, mtvt, smode, hook, max_hart_id, sbss, ebss, sdata,
                   edata,
                   a0, a1, a2, hartid, ret, claimed, log>>

\* r0::init_data(&mut _sdata, &mut _edata, &_sidata): the call
start_rust_init_data(h) ==
    /\ pc[h] = "init_data"
    /\ log' = [log EXCEPT ![h] = Append(@, Ev("init_data", sdata, edata, 0))]
    /\ ptr' = [ptr EXCEPT ![h] = sdata]
    /\ pc' = [pc EXCEPT ![h] = "init_data_loop"]
    /\ UNCHANGED <<trapVars, asmVars, regVars, vecVars, ram0, mtvec, mtvt, smode, hook, max_hart_id, sbss, ebss, sdata,
                   edata, mem,
                   a0, a1, a2, hartid, ret, claimed, writers>>

\* the mutant of init_data: the loop stops one word early
init_data_stops_early(h) ==
    /\ pc[h] = "init_data_loop"
    /\ IF ptr[h] + 1 < edata
       THEN /\ mem' = [mem EXCEPT ![ptr[h]] = sidata(ptr[h] - sdata)]
            /\ writers' = [writers EXCEPT ![ptr[h]] = @ \cup {h}]
            /\ ptr' = [ptr EXCEPT ![h] = @ + 1]
            /\ pc' = pc
       ELSE /\ pc' = [pc EXCEPT ![h] = "setup_interrupts"]
            /\ UNCHANGED <<mem, writers, ptr>>
    /\ UNCHANGED <<trapVars, asmVars, regVars, vecVars, ram0, mtvec, mtvt, smode, hook, max_hart_id, sbss, ebss, sdata,
                   edata,
                   a0, a1, a2, hartid, ret, claimed, log>>

\* r0::init_data: while sdata < edata { *sdata = *sidata; both += 1 }
init_data(h) ==
    /\ pc[h] = "init_data_loop"
    /\ IF ptr[h] < edata
       THEN /\ mem' = [mem EXCEPT ![ptr[h]] = sidata(ptr[h] - sdata)]
            /\ writers' = [writers EXCEPT ![ptr[h]] = @ \cup {h}]
            /\ ptr' = [ptr EXCEPT ![h] = @ + 1]
            /\ pc' = pc
       ELSE /\ pc' = [pc EXCEPT ![h] = "setup_interrupts"]
            /\ UNCHANGED <<mem, writers, ptr>>
    /\ UNCHANGED <<trapVars, asmVars, regVars, vecVars, ram0, mtvec, mtvt, smode, hook, max_hart_id, sbss, ebss, sdata,
                   edata,
                   a0, a1, a2, hartid, ret, claimed, log>>

\* _setup_interrupts();
start_rust_setup_interrupts(h) ==
    /\ pc[h] = "setup_interrupts"
    /\ log' = [log EXCEPT ![h] = Append(@, Ev("setup_interrupts", 0, 0, 0))]
    /\ pc' = [pc EXCEPT ![h] = "main"]
    /\ LET after == default_setup_interrupts(build,
                        [mtvec |-> mtvec[h], mtvt |-> mtvt[h]])
       IN  /\ mtvec' = [mtvec EXCEPT ![h] = after.mtvec]
           /\ mtvt' = [mtvt EXCEPT ![h] = after.mtvt]
    /\ UNCHANGED <<trapVars, asmVars, regVars, vecVars, ram0, smode, hook, max_hart_id, sbss, ebss, sdata,
                   edata, mem,
                   a0, a1, a2, hartid, ret, ptr, claimed, writers>>

\* the mutant of main_args: the hart id in place of a0
main_args_hartid(h) == <<hartid[h], a1[h], a2[h]>>

\* the arguments start_rust hands to main
main_args(h) == <<a0[h], a1[h], a2[h]>>

\* the mutant of start_rust_main: main is called a second time
start_rust_main_twice(h) ==
    /\ pc[h] = "main"
    /\ LET m == main_args(h)
           e == Ev("main", m[1], m[2], m[3]) IN
       log' = [log EXCEPT ![h] = Append(Append(@, e), e)]
    /\ pc' = [pc EXCEPT ![h] = "in_main"]
    /\ UNCHANGED <<trapVars, asmVars, regVars, vecVars, ram0, mtvec, mtvt, smode, hook, max_hart_id, sbss, ebss, sdata,
                   edata, mem,
                   a0, a1, a2, hartid, ret, ptr, claimed, writers>>

\* main(a0, a1, a2); main is `-> !`: the hart stays in it
start_rust_main(h) ==
    /\ pc[h] = "main"
    /\ LET m == main_args(h) IN
       log' = [log EXCEPT ![h] = Append(@, Ev("main", m[1], m[2], m[3]))]
    /\ pc' = [pc EXCEPT ![h] = "in_main"]
    /\ UNCHANGED <<trapVars, asmVars, regVars, vecVars, ram0, mtvec, mtvt, smode, hook, max_hart_id, sbss, ebss, sdata,
                   edata, mem,
                   a0, a1, a2, hartid, ret, ptr, claimed, writers>>

(* ---------------------------- specification ---------------------------- *)
HartStep(h) ==
    \/ start(h)
    \/ start_rust_mp_hook(h)
    \/ wfi(h)
    \/ default_mp_hook_loop(h)
    \/ start_rust_pre_init(h)
    \/ start_rust_zero_bss(h)
    \/ zero_bss(h)
    \/ start_rust_init_data(h)
    \/ init_data(h)
    \/ start_rust_setup_interrupts(h)
    \/ start_rust_main(h)

Next == \E h \in Harts : HartStep(h)

Spec == Init /\ [][Next]_vars

\* the boot of every build, over every layout of .data and .bss, from a RAM
\* that holds stale words or that an earlier clear has left behind
BootInit ==
    /\ build \in {"direct", "clic", "nxti"}
    /\ defaults = TRUE
    /\ attr = << >>
    /\ ip = {}
    /\ ie = {}
    /\ TrapIdle
    /\ AsmIdle
    /\ RegIdle
    /\ VecIdle
    /\ smode = FALSE
    /\ hook \in {"default", "custom"}
    /\ max_hart_id = NumHarts - 1
    /\ \E dl \in 0 .. MaxLen, bl \in 0 .. MaxLen :
          /\ sdata = 0
          /\ edata = dl
          /\ sbss = dl
          /\ ebss = dl + bl
    /\ \E cleared \in BOOLEAN :
          mem = [a \in Addr \cup Flash |->
                    IF cleared /\ sbss <= a /\ a < ebss THEN 0
                    ELSE Memory(Unspecified)[a]]
    /\ ram0 = mem
    /\ mtvec = [h \in Harts |-> Reset.mtvec]
    /\ mtvt = [h \in Harts |-> Reset.mtvt]
    /\ pc = [h \in Harts |-> "reset"]
    /\ a0 = [h \in Harts |-> h]
    /\ a1 = [h \in Harts |-> 0]
    /\ a2 = [h \in Harts |-> 1]
    /\ hartid = [h \in Harts |-> Unspecified]
    /\ ret = [h \in Harts |-> "none"]
    /\ ptr = [h \in Harts |-> 0]
    /\ claimed = FALSE
    /\ log = [h \in Harts |-> <<>>]
    /\ writers = [a \in Addr |-> {}]

BootSpec == BootInit /\ [][Next]_vars

\* every hart is a hardware thread of its own and keeps executing
FairSpec == Spec /\ \A h \in Harts : WF_vars(HartStep(h))

(* ------------------------- traps: the hardware -------------------------- *)
\* number of interrupt ids the CLIC reports; id i has level i + 1
NumIrq == 2
\* largest interrupt cause code a direct-mode trap is taken with
MaxCode == 12
\* largest number of trap episodes in flight (nested)
MaxDepth == 2
\* largest number of trap entries in a run
MaxTraps == 2
\* largest number of interrupts raised after the start
MaxRaised == 1

Irqs == 0 .. (NumIrq - 1)
Codes == 0 .. MaxCode
\* exception codes (illegal instruction, breakpoint)
ExcCodes == {2, 3}

level(i) == i + 1

\* clicintattr: shv, trig = TRIG_EDGE | TRIG_POSITIVE, mode = machine
EdgePositive == [shv |-> 0, trig |-> 1, mode |-> 3]

\* interrupt_vector: entry i is the 4-byte instruction `j int_i`
mtvt_entry(i) == interrupt_vector + 4 * i

vector_id(addr) == (addr - interrupt_vector) \div 4

\* a handler invocation: the symbol called, and the id for int_<id>
Call(name, n) == [name |-> name, n |-> n]

\* a trap episode: where its handler code stands, the cause it was entered
\* with, the ids pending and enabled and the CLIC registers at its entry,
\* the handlers it has called, the __INTERRUPTS indices it has read, what
\* it saved of
\* mcause/mepc, t0, and whether the instruction it stands at raises an
\* exception (mepc then names that instruction, and a handler that leaves
\* mepc as it was comes back to it)
Frame(loc, cause, saved) ==
    [loc |-> loc, cause |-> cause, pend |-> ip \cap ie,
     entry |-> [ip |-> ip, ie |-> ie, attr |-> attr], calls |-> <<>>,
     reads |-> <<>>, saved |-> saved, t0 |-> 0, fault |-> FALSE]

Top == stack[Len(stack)]

SetTop(f) == [stack EXCEPT ![Len(stack)] = f]

\* code is running with the given frames in flight: main, or a handler
Running == IF stack = <<>> THEN TRUE ELSE Top.loc = "in_handler"

\* the innermost episode can execute the instruction it stands at
Executes == IF stack = <<>> THEN TRUE ELSE ~Top.fault

\* the stack once the instruction the innermost episode stands at faults
Faulted == IF stack = <<>> THEN stack ELSE SetTop([Top EXCEPT !.fault = TRUE])

\* the innermost episode stands at loc
At(loc) == IF stack = <<>> THEN FALSE ELSE Top.loc = loc

\* where the trap vector points: mtvec as default_setup_interrupts wrote it
trap_vector == IF build = "nxti" THEN "_nxti_trap_handler" ELSE "_start_trap"

\* _nxti_trap_handler: store context (ra .. t6, then mcause and mepc)
nxti_store_context(c, epc) == Frame("nxti_loop", c, <<c, epc>>)

\* _start_trap: store the trap frame, call _start_trap_rust
start_trap(c) == Frame("start_trap_rust", c, <<>>)

\* the hart takes a trap with cause c: MIE is cleared, mcause and mepc are
\* written, and the handler mtvec names starts a new episode
TakeTrap(c, lvl, under) ==
    /\ Len(stack) < MaxDepth
    /\ ntraps < MaxTraps
    /\ ntraps' = ntraps + 1
    /\ mcause' = c
    /\ mepc' = Len(stack)
    /\ mie' = FALSE
    /\ mil' = lvl
    /\ stack' = Append(under, IF trap_vector = "_nxti_trap_handler"
                              THEN nxti_store_context(c, Len(stack))
                              ELSE start_trap(c))
    /\ UNCHANGED <<bootVars, asmVars, regVars, vecVars, cfgVars, ip, ie, last, nraised>>

\* an exception: taken whenever code runs, whatever MIE is
exception(e) ==
    /\ IF Running THEN TRUE ELSE At("nxti_jalr")
    /\ TakeTrap(Cause(FALSE, e, mil, mie), mil, Faulted)

\* a core interrupt with cause code c, no CLIC: taken when MIE is set
interrupt_direct(c) ==
    /\ build = "direct"
    /\ mie
    /\ TakeTrap(Cause(TRUE, c, mil, mie), mil, stack)

\* the mutant of Eligible: the enable bit is not looked at
Eligible_ignores_enable(lvl) == {i \in ip : level(i) > lvl}

\* the pending and enabled ids whose level is above lvl
Eligible(lvl) == {i \in ip \cap ie : level(i) > lvl}

Highest(S) == CHOOSE i \in S : \A j \in S : level(j) <= level(i)

\* a CLIC interrupt: the highest pending and enabled id above the current
\* level is taken when MIE is set; its pending bit stays set
interrupt_clic ==
    /\ build # "direct"
    /\ mie
    /\ Eligible(mil) # {}
    /\ LET i == Highest(Eligible(mil)) IN
       TakeTrap(Cause(TRUE, i, mil, mie), level(i), stack)

\* an interrupt source raises its line: the pending bit is set
raise(i) ==
    /\ build # "direct"
    /\ i \notin ip
    /\ nraised < MaxRaised
    /\ nraised' = nraised + 1
    /\ ip' = ip \cup {i}
    /\ UNCHANGED <<bootVars, asmVars, regVars, vecVars, cfgVars, mie, mil, mcause, mepc, ie, stack, last,
                   ntraps>>

\* mret: back to the interrupted context with its MIE and level
mret ==
    /\ last' = <<Top>>
    /\ stack' = SubSeq(stack, 1, Len(stack) - 1)
    /\ mie' = mcause.mpie
    /\ mil' = mcause.mpil

(* --------------------------- start_trap_rust --------------------------- *)
\* Vector: a handler or, in the same storage, the reserved value 0
Vector(handler, reserved) == [handler |-> handler, reserved |-> reserved]

\* the mutant of INTERRUPTS: the machine software and timer slots swapped
INTERRUPTS_swapped ==
    << Vector("UserSoft", 1), Vector("SupervisorSoft", 1), Vector("null", 0),
       Vector("MachineTimer", 1), Vector("UserTimer", 1),
       Vector("SupervisorTimer", 1), Vector("null", 0),
       Vector("MachineSoft", 1), Vector("UserExternal", 1),
       Vector("SupervisorExternal", 1), Vector("null", 0),
       Vector("MachineExternal", 1) >>

\* __INTERRUPTS: one slot per core interrupt cause
INTERRUPTS ==
    << Vector("UserSoft", 1), Vector("SupervisorSoft", 1), Vector("null", 0),
       Vector("MachineSoft", 1), Vector("UserTimer", 1),
       Vector("SupervisorTimer", 1), Vector("null", 0),
       Vector("MachineTimer", 1), Vector("UserExternal", 1),
       Vector("SupervisorExternal", 1), Vector("null", 0),
       Vector("MachineExternal", 1) >>

\* mutants of dispatch: the call through the table is followed by a fall
\* into DefaultHandler; an exception is not told from an interrupt
dispatch_falls_through(cause) ==
    IF cause.irq /\ build = "direct" /\ cause.code < Len(INTERRUPTS)
    THEN << Call(INTERRUPTS[cause.code + 1].handler, 0),
            Call("DefaultHandler", 0) >>
    ELSE << Call("DefaultHandler", 0) >>

\* the mutant of index: the table is read with the clic feature as well
index_with_clic(cause) ==
    IF cause.irq /\ cause.code < Len(INTERRUPTS)
    THEN << cause.code >>
    ELSE << >>

\* the mutant of index: the bound check lets the length itself through
index_off_by_one(cause) ==
    IF cause.irq /\ build = "direct" /\ cause.code <= Len(INTERRUPTS)
    THEN << cause.code >>
    ELSE << >>

\* the __INTERRUPTS indices start_trap_rust reads for the cause
index(cause) ==
    IF cause.irq /\ build = "direct" /\ cause.code < Len(INTERRUPTS)
    THEN << cause.code >>
    ELSE << >>

\* &__INTERRUPTS[k]: a slot, or the panic of an index out of bounds
Slot(k) ==
    IF k + 1 \in DOMAIN INTERRUPTS THEN INTERRUPTS[k + 1]
    ELSE Vector("panic", 1)

\* the mutant of dispatch: a reserved slot is called through
dispatch_no_reserved_check(cause) ==
    IF ~cause.irq
    THEN << Call("ExceptionHandler", 0) >>
    ELSE IF index(cause) # << >>
         THEN << Call(Slot(index(cause)[1]).handler, 0) >>
         ELSE << Call("DefaultHandler", 0) >>

\* start_trap_rust: the handlers it calls for the cause it reads
dispatch(cause) ==
    IF ~cause.irq
    THEN << Call("ExceptionHandler", 0) >>
    ELSE IF index(cause) # << >>
         THEN LET h == Slot(index(cause)[1]) IN
              IF h.reserved = 0
              THEN << Call("DefaultHandler", 0) >>
              ELSE << Call(h.handler, 0) >>
         ELSE << Call("DefaultHandler", 0) >>

\* let cause = xcause::read(); ... the handler is called
start_trap_rust ==
    /\ At("start_trap_rust")
    /\ stack' = SetTop([Top EXCEPT !.calls = @ \o dispatch(mcause),
                                   !.reads = @ \o index(mcause),
                                   !.loc = "in_handler"])
    /\ UNCHANGED <<bootVars, asmVars, regVars, vecVars, cfgVars, mie, mil, mcause, mepc, ip, ie, last,
                   ntraps, nraised>>

\* the handler a symbol is linked to: with the defaults, DefaultHandler is
\* DefaultInterruptHandler and ExceptionHandler is DefaultExceptionHandler
linked(name) ==
    IF defaults /\ name = "DefaultHandler" THEN "DefaultInterruptHandler"
    ELSE IF defaults /\ name = "ExceptionHandler"
         THEN "DefaultExceptionHandler"
         ELSE name

\* the mutant of returns: the body of DefaultInterruptHandler is empty
returns_empty_body(name) ==
    linked(name) \notin {"ExceptionHandler", "DefaultExceptionHandler"}

\* the handler comes back to its caller: ExceptionHandler is `-> !`, and
\* DefaultExceptionHandler and DefaultInterruptHandler are `loop { continue }`
returns(name) ==
    linked(name) \notin {"ExceptionHandler", "DefaultExceptionHandler",
                         "DefaultInterruptHandler"}

\* loop { continue }: one turn of a default handler
default_handler_loop ==
    /\ At("in_handler")
    /\ Executes
    /\ linked(Top.calls[Len(Top.calls)].name)
         \in {"DefaultExceptionHandler", "DefaultInterruptHandler"}
    /\ UNCHANGED vars

\* an interrupt handler returns
handler_return ==
    /\ At("in_handler")
    /\ Executes
    /\ returns(Top.calls[Len(Top.calls)].name)
    /\ stack' = SetTop([Top EXCEPT !.loc = IF Top.saved = <<>>
                                           THEN "returned" ELSE "nxti_loop"])
    /\ UNCHANGED <<bootVars, asmVars, regVars, vecVars, cfgVars, mie, mil, mcause, mepc, ip, ie, last,
                   ntraps, nraised>>

\* start_trap_rust returns; _start_trap restores the trap frame; mret
start_trap_return ==
    /\ At("returned")
    /\ mret
    /\ UNCHANGED <<bootVars, asmVars, regVars, vecVars, cfgVars, mcause, mepc, ip, ie, ntraps, nraised>>

(* -------------------------- _nxti_trap_handler ------------------------- *)
\* the mutant of mnxti: the pending bit of the returned interrupt stays set
mnxti_keeps_pending(lvl) ==
    IF Eligible(lvl) = {}
    THEN [t0 |-> 0, ip |-> ip, mil |-> mil]
    ELSE LET i == Highest(Eligible(lvl)) IN
         [t0 |-> mtvt_entry(i), ip |-> ip, mil |-> level(i)]

\* csrrsi t0, 0x345, 8 (mnxti): the address of the mtvt entry of the next
\* pending and enabled interrupt above the previous level, whose pending
\* bit is cleared; 0 if there is none
mnxti(lvl) ==
    IF Eligible(lvl) = {}
    THEN [t0 |-> 0, ip |-> ip, mil |-> mil]
    ELSE LET i == Highest(Eligible(lvl)) IN
         [t0 |-> mtvt_entry(i), ip |-> ip \ {i}, mil |-> level(i)]

\* 1: csrrsi t0, 0x345, 8; beqz t0, 2f     (the write also sets MIE)
nxti_read ==
    /\ At("nxti_loop")
    /\ LET r == mnxti(mcause.mpil) IN
       /\ ip' = r.ip
       /\ mil' = r.mil
       /\ mie' = TRUE
       /\ stack' = SetTop([Top EXCEPT !.t0 = r.t0,
                                      !.loc = IF r.t0 = 0 THEN "nxti_exit"
                                              ELSE "nxti_jalr"])
    /\ UNCHANGED <<bootVars, asmVars, regVars, vecVars, cfgVars, mcause, mepc, ie, last, ntraps, nraised>>

\* the mutant of nxti_jalr: after the call the loop is not repeated
nxti_jalr_once ==
    /\ At("nxti_jalr")
    /\ Executes
    /\ stack' = SetTop([Top EXCEPT
                          !.calls = Append(@, Call("int", vector_id(Top.t0))),
                          !.loc = "nxti_exit"])
    /\ UNCHANGED <<bootVars, asmVars, regVars, vecVars, cfgVars, mie, mil, mcause, mepc, ip, ie, last,
                   ntraps, nraised>>

\* jalr t0: through `j int_<id>` of interrupt_vector into the handler; j 1b
nxti_jalr ==
    /\ At("nxti_jalr")
    /\ Executes
    /\ stack' = SetTop([Top EXCEPT
                          !.calls = Append(@, Call("int", vector_id(Top.t0))),
                          !.loc = "in_handler"])
    /\ UNCHANGED <<bootVars, asmVars, regVars, vecVars, cfgVars, mie, mil, mcause, mepc, ip, ie, last,
                   ntraps, nraised>>

\* 2: csrci mstatus, 8; load context (mcause, mepc, ra .. t6); mret
nxti_exit ==
    /\ At("nxti_exit")
    /\ LET c == Top.saved[1] IN
       /\ mcause' = c
       /\ mepc' = Top.saved[2]
       /\ last' = <<Top>>
       /\ stack' = SubSeq(stack, 1, Len(stack) - 1)
       /\ mie' = c.mpie
       /\ mil' = c.mpil
    /\ UNCHANGED <<bootVars, asmVars, regVars, vecVars, cfgVars, ip, ie, ntraps, nraised>>

(* ------------------------- specification: traps ------------------------ *)
\* the boot side once the hart is in main
BootDone ==
    /\ smode = FALSE
    /\ hook = "default"
    /\ max_hart_id = 0
    /\ sdata = 0 /\ edata = 0 /\ sbss = 0 /\ ebss = 0
    /\ mem = Memory(Unspecified)
    /\ ram0 = mem
    /\ mtvec = [h \in Harts |-> IF h = 0
                                 THEN default_setup_interrupts(build, Reset).mtvec
                                 ELSE Reset.mtvec]
    /\ mtvt = [h \in Harts |-> IF h = 0
                                THEN default_setup_interrupts(build, Reset).mtvt
                                ELSE Reset.mtvt]
    /\ pc = [h \in Harts |-> IF h = 0 THEN "in_main" ELSE "abort"]
    /\ a0 = [h \in Harts |-> 0]
    /\ a1 = [h \in Harts |-> 0]
    /\ a2 = [h \in Harts |-> 0]
    /\ hartid = [h \in Harts |-> IF h = 0 THEN 0 ELSE Unspecified]
    /\ ret = [h \in Harts |-> IF h = 0 THEN "true" ELSE "none"]
    /\ ptr = [h \in Harts |-> 0]
    /\ claimed = FALSE
    /\ log = [h \in Harts |-> <<>>]
    /\ writers = [a \in Addr |-> {}]

TrapInit ==
    /\ build \in {"direct", "clic", "nxti"}
    /\ BootDone
    /\ defaults \in (IF build = "nxti" THEN {TRUE} ELSE BOOLEAN)
    /\ attr = [i \in Irqs |-> EdgePositive]
    /\ IF build = "direct"
       THEN ip = {} /\ ie = {}
       ELSE ip \in SUBSET Irqs /\ ie \in SUBSET Irqs
    /\ TrapIdle
    /\ AsmIdle
    /\ RegIdle
    /\ VecIdle

TrapNext ==
    \/ \E e \in ExcCodes : exception(e)
    \/ \E c \in Codes : interrupt_direct(c)
    \/ interrupt_clic
    \/ \E i \in Irqs : raise(i)
    \/ start_trap_rust
    \/ default_handler_loop
    \/ handler_return
    \/ start_trap_return
    \/ nxti_read
    \/ nxti_jalr
    \/ nxti_exit

TrapSpec == TrapInit /\ [][TrapNext]_vars

(* ------------------ the trap frame, instruction by instruction --------- *)
\* largest number of nested traps taken while one handler activation runs
MaxNested == 1
\* largest number of turns of the _nxti_trap_handler loop
MaxIter == 1

\* the largest interrupt id whose registers are modelled
MaxId == 1

\* the #[interrupt_handler] items of a program
MaxHandlers == 2

\* the last entry of interrupt_vector: j int_264
LastVector == 264

\* the general registers of the frame, in the order they are stored
GprOrder ==
    << "ra", "t0", "t1", "t2", "a0", "a1", "a2", "a3", "a4", "a5", "a6",
       "a7", "t3", "t4", "t5", "t6" >>

Gprs == {GprOrder[k] : k \in 1 .. Len(GprOrder)}

\* struct TrapFrame: the names of its fields, in declaration order
TrapFrame ==
    << "ra", "t0", "t1", "t2", "t3", "t4", "t5", "t6", "a0", "a1", "a2",
       "a3", "a4", "a5", "a6", "a7" >>

Csrs == {"mcause", "mepc"}

\* sp when the first trap is taken: room for MaxNested + 1 frames below
StackTop == (4 * 32) * (MaxNested + 1)

\* the byte offsets of the words of the stack
Slots == {4 * k : k \in 0 .. ((StackTop \div 4) - 1)}

Ins(op, r, x) == [op |-> op, r |-> r, x |-> x]

\* the mutant of store_context: a7 is stored to the slot of a6
store_context_shared_slot ==
    << Ins("addi", "sp", 0 - (4 * 32)) >>
    \o [k \in 1 .. Len(GprOrder) |->
          Ins("sw", GprOrder[k], IF k = 12 THEN 40 ELSE 4 * (k - 1))]
    \o << Ins("csrr", "t0", "mcause"), Ins("csrr", "t1", "mepc"),
          Ins("sw", "t0", 64), Ins("sw", "t1", 68) >>

\* the mutant of store_context: the registers in the order of TrapFrame
store_context_as_TrapFrame ==
    << Ins("addi", "sp", 0 - (4 * 32)) >>
    \o [k \in 1 .. Len(TrapFrame) |-> Ins("sw", TrapFrame[k], 4 * (k - 1))]
    \o << Ins("csrr", "t0", "mcause"), Ins("csrr", "t1", "mepc"),
          Ins("sw", "t0", 64), Ins("sw", "t1", 68) >>

\* addi sp, sp, -(4 * 32); sw ra, 0(sp) .. sw t6, 60(sp); csrr t0, mcause;
\* csrr t1, mepc; sw t0, 64(sp); sw t1, 68(sp)
store_context ==
    << Ins("addi", "sp", 0 - (4 * 32)) >>
    \o [k \in 1 .. Len(GprOrder) |-> Ins("sw", GprOrder[k], 4 * (k - 1))]
    \o << Ins("csrr", "t0", "mcause"), Ins("csrr", "t1", "mepc"),
          Ins("sw", "t0", 64), Ins("sw", "t1", 68) >>

\* the mutant of load_context: mcause and mepc are not written back
load_context_no_csrw ==
    << Ins("lw", "t0", 64), Ins("lw", "t1", 68) >>
    \o [k \in 1 .. Len(GprOrder) |-> Ins("lw", GprOrder[k], 4 * (k - 1))]
    \o << Ins("addi", "sp", 4 * 32), Ins("mret", "", 0) >>

\* the mutant of load_context: half of the frame is released
load_context_half_release ==
    << Ins("lw", "t0", 64), Ins("lw", "t1", 68),
       Ins("csrw", "t0", "mcause"), Ins("csrw", "t1", "mepc") >>
    \o [k \in 1 .. Len(GprOrder) |-> Ins("lw", GprOrder[k], 4 * (k - 1))]
    \o << Ins("addi", "sp", 4 * 16), Ins("mret", "", 0) >>

\* the mutant of load_context: t3 is loaded from the slot of a7
load_context_wrong_slot ==
    << Ins("lw", "t0", 64), Ins("lw", "t1", 68),
       Ins("csrw", "t0", "mcause"), Ins("csrw", "t1", "mepc") >>
    \o [k \in 1 .. Len(GprOrder) |->
          Ins("lw", GprOrder[k], IF k = 13 THEN 44 ELSE 4 * (k - 1))]
    \o << Ins("addi", "sp", 4 * 32), Ins("mret", "", 0) >>

\* lw t0, 64(sp); lw t1, 68(sp); csrw mcause, t0; csrw mepc, t1;
\* lw ra, 0(sp) .. lw t6, 60(sp); addi sp, sp, (4 * 32); mret
load_context ==
    << Ins("lw", "t0", 64), Ins("lw", "t1", 68),
       Ins("csrw", "t0", "mcause"), Ins("csrw", "t1", "mepc") >>
    \o [k \in 1 .. Len(GprOrder) |-> Ins("lw", GprOrder[k], 4 * (k - 1))]
    \o << Ins("addi", "sp", 4 * 32), Ins("mret", "", 0) >>

\* _nxti_trap_handler: 1: csrrsi t0, 0x345, 8; beqz t0, 2f; jalr t0; j 1b;
\* 2: csrci mstatus, 8
nxti_trap_handler ==
    store_context
    \o << Ins("csrrsi", "t0", "mnxti"), Ins("beqz", "t0", 3),
          Ins("call", "t0", 0), Ins("j", "", 0 - 3),
          Ins("csrci", "", "mstatus") >>
    \o load_context

\* the mutant of interrupt_handler_asm: interrupts are enabled before
\* mcause and mepc are read and stored
interrupt_handler_asm_early_enable ==
    << Ins("addi", "sp", 0 - (4 * 32)) >>
    \o [k \in 1 .. Len(GprOrder) |-> Ins("sw", GprOrder[k], 4 * (k - 1))]
    \o << Ins("csrsi", "", "mstatus"),
          Ins("csrr", "t0", "mcause"), Ins("csrr", "t1", "mepc"),
          Ins("sw", "t0", 64), Ins("sw", "t1", 68),
          Ins("call", "handler", 0), Ins("csrci", "", "mstatus") >>
    \o load_context

\* the wrapper interrupt_handler generates: store, csrsi mstatus, 8;
\* jal <handler>; csrci mstatus, 8; load, mret
interrupt_handler_asm ==
    store_context
    \o << Ins("csrsi", "", "mstatus"), Ins("call", "handler", 0),
          Ins("csrci", "", "mstatus") >>
    \o load_context

code == IF prog = "nxti" THEN nxti_trap_handler ELSE interrupt_handler_asm

\* the instruction the activation stands at
cur == code[ipc]

\* the activation is over once mret has executed
Over == ipc > Len(code)

\* the values at trap entry: each register holds a value of its own
entry_reg == [r \in Gprs |-> r]

entry_csr == [c \in Csrs |-> c]

\* a register is restored when its value at entry is written back to it
Restores(r, v) == IF v = r THEN << r >> ELSE << >>

\* the next instruction, everything else of the activation left alone
Step(op) ==
    /\ prog # "none"
    /\ ~Over
    /\ ~in_h
    /\ cur.op = op
    /\ UNCHANGED <<bootVars, trapVars, regVars, vecVars, prog, actVars>>

Advance == ipc' = ipc + 1

\* addi sp, sp, imm
asm_addi ==
    /\ Step("addi")
    /\ sp' = sp + cur.x
    /\ Advance
    /\ UNCHANGED <<amie, reg, csr, fmem, slog, rlog, nested_at, iters, in_h>>

\* sw r, off(sp)
asm_sw ==
    /\ Step("sw")
    /\ fmem' = [fmem EXCEPT ![sp + cur.x] = reg[cur.r]]
    /\ slog' = Append(slog, [slot |-> sp + cur.x, val |-> reg[cur.r]])
    /\ Advance
    /\ UNCHANGED <<amie, sp, reg, csr, rlog, nested_at, iters, in_h>>

\* lw r, off(sp)
asm_lw ==
    /\ Step("lw")
    /\ reg' = [reg EXCEPT ![cur.r] = fmem[sp + cur.x]]
    /\ rlog' = rlog \o Restores(cur.r, fmem[sp + cur.x])
    /\ Advance
    /\ UNCHANGED <<amie, sp, csr, fmem, slog, nested_at, iters, in_h>>

\* csrr r, csr
asm_csrr ==
    /\ Step("csrr")
    /\ reg' = [reg EXCEPT ![cur.r] = csr[cur.x]]
    /\ Advance
    /\ UNCHANGED <<amie, sp, csr, fmem, slog, rlog, nested_at, iters, in_h>>

\* csrw csr, r
asm_csrw ==
    /\ Step("csrw")
    /\ csr' = [csr EXCEPT ![cur.x] = reg[cur.r]]
    /\ rlog' = rlog \o Restores(cur.x, reg[cur.r])
    /\ Advance
    /\ UNCHANGED <<amie, sp, reg, fmem, slog, nested_at, iters, in_h>>

\* csrsi mstatus, 8
asm_csrsi ==
    /\ Step("csrsi")
    /\ amie' = TRUE
    /\ Advance
    /\ UNCHANGED <<sp, reg, csr, fmem, slog, rlog, nested_at, iters, in_h>>

\* csrci mstatus, 8
asm_csrci ==
    /\ Step("csrci")
    /\ amie' = FALSE
    /\ Advance
    /\ UNCHANGED <<sp, reg, csr, fmem, slog, rlog, nested_at, iters, in_h>>

\* csrrsi t0, 0x345, 8: an mtvt entry or 0 into t0, MIE set
asm_csrrsi(entry) ==
    /\ Step("csrrsi")
    /\ entry # 0 => iters < MaxIter
    /\ iters' = IF entry # 0 THEN iters + 1 ELSE iters
    /\ reg' = [reg EXCEPT ![cur.r] = IF entry = 0 THEN "zero" ELSE "entry"]
    /\ amie' = TRUE
    /\ Advance
    /\ UNCHANGED <<sp, csr, fmem, slog, rlog, nested_at, in_h>>

\* beqz r, label
asm_beqz ==
    /\ Step("beqz")
    /\ ipc' = IF reg[cur.r] = "zero" THEN ipc + cur.x ELSE ipc + 1
    /\ UNCHANGED <<amie, sp, reg, csr, fmem, slog, rlog, nested_at, iters,
                   in_h>>

\* j label
asm_j ==
    /\ Step("j")
    /\ ipc' = ipc + cur.x
    /\ UNCHANGED <<amie, sp, reg, csr, fmem, slog, rlog, nested_at, iters,
                   in_h>>

\* jalr t0 / jal <handler>: the handler is entered
asm_call ==
    /\ Step("call")
    /\ in_h' = TRUE
    /\ UNCHANGED <<ipc, amie, sp, reg, csr, fmem, slog, rlog, nested_at,
                   iters>>

\* what is left of memory below the stack pointer once code has used it
Clobbered == [a \in Slots |-> IF a < sp THEN "clobbered" ELSE fmem[a]]

\* the handler, a Rust function, returns: the caller-saved registers and
\* the stack below sp hold whatever it left there
asm_ret ==
    /\ prog # "none"
    /\ in_h
    /\ in_h' = FALSE
    /\ reg' = [r \in Gprs |-> "clobbered"]
    /\ fmem' = Clobbered
    /\ Advance
    /\ UNCHANGED <<bootVars, trapVars, regVars, vecVars, prog, amie, sp, csr, slog, rlog,
                   nested_at, iters, actVars>>

\* mcause and mepc as a trap that nests on d activations writes them
NestedCsr(d) ==
    [c \in Csrs |-> IF d = 0 THEN "nested1"
                    ELSE IF d = 1 THEN "nested2" ELSE "nested3"]

\* an activation as a nested trap suspends it
Suspended ==
    [ipc |-> ipc, slog |-> slog, rlog |-> rlog,
     nested_at |-> nested_at \cup {ipc}, iters |-> iters, in_h |-> in_h,
     ereg |-> ereg, ecsr |-> ecsr, esp |-> esp]

\* a trap nests while MIE is set: it clears MIE, writes mcause and mepc,
\* and the handler is entered again, with the registers and sp as they are
asm_nested ==
    /\ prog # "none"
    /\ ~Over
    /\ amie
    /\ Len(outer) < MaxNested
    /\ Cardinality(nested_at) < MaxNested
    /\ outer' = Append(outer, Suspended)
    /\ ipc' = 1
    /\ amie' = FALSE
    /\ csr' = NestedCsr(Len(outer))
    /\ ecsr' = NestedCsr(Len(outer))
    /\ ereg' = reg
    /\ esp' = sp
    /\ slog' = << >>
    /\ rlog' = << >>
    /\ nested_at' = {}
    /\ iters' = 0
    /\ in_h' = FALSE
    /\ UNCHANGED <<bootVars, trapVars, regVars, vecVars, prog, sp, reg, fmem>>

\* mret: back to the interrupted code, the suspended activation if the
\* trap nested; MIE is what mcause.mpie holds (set: the trap interrupted
\* code that ran with interrupts enabled)
asm_mret ==
    /\ prog # "none"
    /\ ~Over
    /\ ~in_h
    /\ cur.op = "mret"
    /\ amie' = TRUE
    /\ IF outer = << >>
       THEN /\ Advance
            /\ UNCHANGED <<slog, rlog, nested_at, iters, in_h, actVars>>
       ELSE LET a == outer[Len(outer)] IN
            /\ outer' = SubSeq(outer, 1, Len(outer) - 1)
            /\ ipc' = a.ipc
            /\ slog' = a.slog
            /\ rlog' = a.rlog
            /\ nested_at' = a.nested_at
            /\ iters' = a.iters
            /\ in_h' = a.in_h
            /\ ereg' = a.ereg
            /\ ecsr' = a.ecsr
            /\ esp' = a.esp
    /\ UNCHANGED <<bootVars, trapVars, regVars, vecVars, prog, sp, reg, csr, fmem>>

\* trap entry into the trampoline or into a wrapper: MIE is cleared by the
\* trap, sp is the interrupted code's, the frame's memory is free stack
AsmInit ==
    /\ prog \in {"nxti", "wrapper"}
    /\ build = (IF prog = "nxti" THEN "nxti" ELSE "clic")
    /\ BootDone
    /\ RegIdle
    /\ VecIdle
    /\ defaults = TRUE
    /\ attr = [i \in Irqs |-> EdgePositive]
    /\ ip = {} /\ ie = {}
    /\ TrapIdle
    /\ ipc = 1
    /\ amie = FALSE
    /\ sp = StackTop
    /\ reg = entry_reg
    /\ csr = entry_csr
    /\ ereg = entry_reg
    /\ ecsr = entry_csr
    /\ esp = StackTop
    /\ outer = << >>
    /\ fmem = [a \in Slots |-> "free"]
    /\ slog = << >>
    /\ rlog = << >>
    /\ nested_at = {}
    /\ iters = 0
    /\ in_h = FALSE

AsmNext ==
    \/ asm_addi
    \/ asm_sw
    \/ asm_lw
    \/ asm_csrr
    \/ asm_csrw
    \/ asm_csrsi
    \/ asm_csrci
    \/ \E entry \in {0, mtvt_entry(0)} : asm_csrrsi(entry)
    \/ asm_beqz
    \/ asm_j
    \/ asm_call
    \/ asm_ret
    \/ asm_nested
    \/ asm_mret

AsmSpec == AsmInit /\ [][AsmNext]_vars

(* ------------------ memory-mapped registers (src/clic.rs) --------------- *)
\* A register value is the set of the positions of its one bits, so that
\* every 32 bit value is representable; u8 and u32 turn a literal into
\* that set, a 32 bit literal given as its two 16 bit halves.
Bits(n, w) == {i \in 0 .. (w - 1) : (n \div (2 ^ i)) % 2 = 1}

u8(n) == Bits(n, 8)

u32(hi, lo) == Bits(lo, 16) \cup {i + 16 : i \in Bits(hi, 16)}

\* x & !mask,  x & mask,  x | y  are  x \ mask,  x \cap mask,  x \cup y
\* value << n in a type of w bits: the bits shifted past the top are lost
shl(x, n, w) == {i + n : i \in x} \cap (0 .. (w - 1))

\* value >> n
shr(x, n) == {i - n : i \in {j \in x : j >= n}}

\* volatile accesses to the little endian memory behind a base address
read_volatile_u8(m, a) == m[a]

write_volatile_u8(m, a, x) == [m EXCEPT ![a] = x]

read_volatile_u32(m, a) ==
    UNION {{(8 * k) + b : b \in m[a + k]} : k \in 0 .. 3}

write_volatile_u32(m, a, x) ==
    [b \in DOMAIN m |->
        IF b \in a .. (a + 3)
        THEN {i - (8 * (b - a)) : i \in x \cap ((8 * (b - a)) .. ((8 * (b - a)) + 7))}
        ELSE m[b]]

\* MemoryMapper::write: the memory after the call
write(m, reg_offset, mask, bitoffset, value) ==
    LET reg_value == read_volatile_u32(m, reg_offset)
    IN  write_volatile_u32(m, reg_offset,
            (reg_value \ mask) \cup shl(value, bitoffset, 32))

\* MemoryMapper::write_byte: the memory after the call
write_byte(m, reg_offset, mask, bitoffset, value) ==
    LET reg_value == read_volatile_u8(m, reg_offset)
    IN  write_volatile_u8(m, reg_offset,
            (reg_value \ mask) \cup shl(value, bitoffset, 8))

\* MemoryMapper::read: the value returned
read(m, reg_offset, mask, bitoffset) ==
    LET reg_value == read_volatile_u32(m, reg_offset)
    IN  shr(reg_value \cap mask, bitoffset)

\* MemoryMapper::read_byte: the value returned
read_byte(m, reg_offset, mask, bitoffset) ==
    LET reg_value == read_volatile_u8(m, reg_offset)
    IN  shr(reg_value \cap mask, bitoffset)

\* u32 arithmetic; every operand the model forms is below 2^31, so the
\* wrap at 2^32 is checked on its two 16 bit halves
U32(x) == ((x \div 65536) % 65536) * 65536 + (x % 65536)

\* the offset functions of the per-interrupt registers, with a stride of 4
CLICINTIP_REG_OFFSET_stride4(id) == U32(\H1000 + U32(\H4 * id))

CLICINTIP_REG_OFFSET(id) == U32(\H1000 + U32(\H10 * id))

CLICINTIE_REG_OFFSET(id) == U32(\H1004 + U32(\H10 * id))

CLICINTATTR_REG_OFFSET(id) == U32(\H1008 + U32(\H10 * id))

CLICINTCTL_REG_OFFSET(id) == U32(\H100c + U32(\H10 * id))

\* a field descriptor: the mapper and register it lives in, the offset of
\* the register, the width of the access in bytes (the type of the mask),
\* the mask, the bit offset, and the declared WIDTH (0: none declared)
Field(base, name, reg_offset, bytes, mask, bitoffset, width) ==
    [base |-> base, name |-> name, reg_offset |-> reg_offset, bytes |-> bytes,
     mask |-> mask, bitoffset |-> bitoffset, width |-> width]

CLICCFG ==
    { Field("clic", "CLICCFG_NVBITS", \H0, 1, u8(1), 0, 0),
      Field("clic", "CLICCFG_NLBITS", \H0, 1, u8(\H1E), 1, 0),
      Field("clic", "CLICCFG_NMBITS", \H0, 1, u8(\H60), 5, 0) }

CLICINFO ==
    { Field("clic", "CLICINFO_NUM_INTERRUPT", \H4, 4, u32(0, \H1FFF), 0, 0),
      Field("clic", "CLICINFO_VERSION", \H4, 4, u32(\H1F, \HE000), 13, 0),
      Field("clic", "CLICINFO_CLICINTCTLBITS", \H4, 4, u32(\H1E0, 0), 21, 0),
      Field("clic", "CLICINFO_NUM_TRIGGER", \H4, 4, u32(\H7E00, 0), 25, 0) }

CLICINTIP(id) ==
    { Field("clic", "CLICINTIP_CLICINTIP", CLICINTIP_REG_OFFSET(id), 1, u8(1), 0, 0) }

CLICINTIE(id) ==
    { Field("clic", "CLICINTIE_CLICINTIE", CLICINTIE_REG_OFFSET(id), 1, u8(1), 0, 0) }

CLICINTATTR(id) ==
    { Field("clic", "CLICINTATTR_SHV", CLICINTATTR_REG_OFFSET(id), 1, u8(\H1), 0, 0),
      Field("clic", "CLICINTATTR_TRIG", CLICINTATTR_REG_OFFSET(id), 1, u8(\H6), 1, 0),
      Field("clic", "CLICINTATTR_MODE", CLICINTATTR_REG_OFFSET(id), 1, u8(\HC0), 6, 0) }

CLICINTCTL(id) ==
    { Field("clic", "CLICINTCTL_CLICINTCTL", CLICINTCTL_REG_OFFSET(id), 1, u8(\HFF), 0, 0) }

\* TIMER_CFG_LO with the mask of PVAL one bit too far up
TIMER_CFG_LO_pval_shifted ==
    { Field("timer", "TIMER_CFG_LO_ENABLE", \H0, 4, u32(0, \H1), 0, 1),
      Field("timer", "TIMER_CFG_LO_RESET", \H0, 4, u32(0, \H2), 1, 1),
      Field("timer", "TIMER_CFG_LO_IRQEN", \H0, 4, u32(0, \H4), 2, 1),
      Field("timer", "TIMER_CFG_LO_IEM", \H0, 4, u32(0, \H8), 3, 1),
      Field("timer", "TIMER_CFG_LO_MODE", \H0, 4, u32(0, \H10), 4, 1),
      Field("timer", "TIMER_CFG_LO_ONE_S", \H0, 4, u32(0, \H20), 5, 1),
      Field("timer", "TIMER_CFG_LO_PEN", \H0, 4, u32(0, \H40), 6, 1),
      Field("timer", "TIMER_CFG_LO_CCFG", \H0, 4, u32(0, \H80), 7, 1),
      Field("timer", "TIMER_CFG_LO_PVAL", \H0, 4, u32(\H1, \Hfe00), 8, 8),
      Field("timer", "TIMER_CFG_LO_CASC", \H0, 4, u32(\H8000, \H0000), 31, 1) }

TIMER_CFG_LO ==
    { Field("timer", "TIMER_CFG_LO_ENABLE", \H0, 4, u32(0, \H1), 0, 1),
      Field("timer", "TIMER_CFG_LO_RESET", \H0, 4, u32(0, \H2), 1, 1),
      Field("timer", "TIMER_CFG_LO_IRQEN", \H0, 4, u32(0, \H4), 2, 1),
      Field("timer", "TIMER_CFG_LO_IEM", \H0, 4, u32(0, \H8), 3, 1),
      Field("timer", "TIMER_CFG_LO_MODE", \H0, 4, u32(0, \H10), 4, 1),
      Field("timer", "TIMER_CFG_LO_ONE_S", \H0, 4, u32(0, \H20), 5, 1),
      Field("timer", "TIMER_CFG_LO_PEN", \H0, 4, u32(0, \H40), 6, 1),
      Field("timer", "TIMER_CFG_LO_CCFG", \H0, 4, u32(0, \H80), 7, 1),
      Field("timer", "TIMER_CFG_LO_PVAL", \H0, 4, u32(0, \Hff00), 8, 8),
      Field("timer", "TIMER_CFG_LO_CASC", \H0, 4, u32(\H8000, \H0000), 31, 1) }

TIMER_CFG_HI ==
    { Field("timer", "TIMER_CFG_HI_ENABLE", \H4, 4, u32(0, \H1), 0, 1),
      Field("timer", "TIMER_CFG_HI_RESET", \H4, 4, u32(0, \H2), 1, 1),
      Field("timer", "TIMER_CFG_HI_IRQEN", \H4, 4, u32(0, \H4), 2, 1),
      Field("timer", "TIMER_CFG_HI_IEM", \H4, 4, u32(0, \H8), 3, 1),
      Field("timer", "TIMER_CFG_HI_MODE", \H4, 4, u32(0, \H10), 4, 1),
      Field("timer", "TIMER_CFG_HI_ONE_S", \H4, 4, u32(0, \H20), 5, 1),
      Field("timer", "TIMER_CFG_HI_PEN", \H4, 4, u32(0, \H40), 6, 1),
      Field("timer", "TIMER_CFG_HI_CLKCFG", \H4, 4, u32(0, \H80), 7, 1) }

TIMER_CNT ==
    { Field("timer", "TIMER_CNT_LO_CNT_LO", \H8, 4, u32(\Hffff, \Hffff), 0, 32),
      Field("timer", "TIMER_CNT_HI_CNT_HI", \Hc, 4, u32(\Hffff, \Hffff), 0, 32) }

TIMER_CMP ==
    { Field("timer", "TIMER_CMP_LO_CMP_LO", \H10, 4, u32(\Hffff, \Hffff), 0, 32),
      Field("timer", "TIMER_CMP_HI_CMP_HI", \H14, 4, u32(\Hffff, \Hffff), 0, 32) }

TIMER_START ==
    { Field("timer", "TIMER_START_LO_STRT_LO", \H18, 4, u32(0, \H1), 0, 1),
      Field("timer", "TIMER_START_HI_STRT_HI", \H1c, 4, u32(0, \H1), 0, 1) }

TIMER_RESET ==
    { Field("timer", "TIMER_RESET_LO_RST_LO", \H20, 4, u32(0, \H1), 0, 1),
      Field("timer", "TIMER_RESET_HI_RST_HI", \H24, 4, u32(0, \H1), 0, 1) }

\* the interrupt ids whose registers the memory of the model holds
Ids == 0 .. MaxId

\* every field descriptor of the module
Fields ==
    CLICCFG \cup CLICINFO
    \cup UNION {CLICINTIP(id) \cup CLICINTIE(id) \cup CLICINTATTR(id)
                \cup CLICINTCTL(id) : id \in Ids}
    \cup TIMER_CFG_LO \cup TIMER_CFG_HI \cup TIMER_CNT \cup TIMER_CMP
    \cup TIMER_START \cup TIMER_RESET

Mappers == {"clic", "timer"}

\* the bytes behind each base address
Bytes(base) ==
    IF base = "clic"
    THEN (0 .. 7) \cup UNION {(\H1000 + (\H10 * id)) .. (\H100f + (\H10 * id)) : id \in Ids}
    ELSE 0 .. \H27

\* the values written: zero, the largest value of the field, and, where
\* the type is wider than the field, a value one bit wider than the field
Values(f) ==
    LET w == Cardinality(f.mask)
    IN  {{}, 0 .. (w - 1)} \cup (IF w < 8 * f.bytes THEN {0 .. w} ELSE {})

Access(kind, f, v, before, res) ==
    [kind |-> kind, f |-> f, v |-> v, before |-> before, res |-> res]

\* a caller writes v to field f with the accessor of the field's type
reg_write(f, v) ==
    /\ racc = << >>
    /\ f.bytes = 4
    /\ rmem' = [rmem EXCEPT ![f.base] =
                   write(rmem[f.base], f.reg_offset, f.mask, f.bitoffset, v)]
    /\ racc' = Access("write", f, v, rmem, {})
    /\ UNCHANGED <<bootVars, trapVars, asmVars, vecVars>>

reg_write_byte(f, v) ==
    /\ racc = << >>
    /\ f.bytes = 1
    /\ rmem' = [rmem EXCEPT ![f.base] =
                   write_byte(rmem[f.base], f.reg_offset, f.mask, f.bitoffset, v)]
    /\ racc' = Access("write", f, v, rmem, {})
    /\ UNCHANGED <<bootVars, trapVars, asmVars, vecVars>>

\* the caller reads the field it has just written
reg_read ==
    /\ racc # << >>
    /\ racc.kind = "write"
    /\ racc.f.bytes = 4
    /\ racc' = [racc EXCEPT !.kind = "read",
                   !.res = read(rmem[racc.f.base], racc.f.reg_offset,
                                racc.f.mask, racc.f.bitoffset)]
    /\ UNCHANGED <<bootVars, trapVars, asmVars, vecVars, rmem>>

reg_read_byte ==
    /\ racc # << >>
    /\ racc.kind = "write"
    /\ racc.f.bytes = 1
    /\ racc' = [racc EXCEPT !.kind = "read",
                   !.res = read_byte(rmem[racc.f.base], racc.f.reg_offset,
                                     racc.f.mask, racc.f.bitoffset)]
    /\ UNCHANGED <<bootVars, trapVars, asmVars, vecVars, rmem>>

\* the registers hold any of three patterns before the access
RegInit ==
    /\ build = "clic"
    /\ BootDone
    /\ defaults = TRUE
    /\ attr = [i \in Irqs |-> EdgePositive]
    /\ ip = {} /\ ie = {}
    /\ TrapIdle
    /\ AsmIdle
    /\ \E pat \in {{}, 0 .. 7, {0, 2, 4, 6}} :
          rmem = [base \in Mappers |-> [a \in Bytes(base) |-> pat]]
    /\ racc = << >>
    /\ VecIdle

RegNext ==
    \/ \E f \in Fields : \E v \in Values(f) : reg_write(f, v)
    \/ \E f \in Fields : \E v \in Values(f) : reg_write_byte(f, v)
    \/ reg_read
    \/ reg_read_byte

RegSpec == RegInit /\ [][RegNext]_vars

(* -------------- #[interrupt_handler] and interrupt_vector -------------- *)
RECURSIVE DigitsText(_)
\* the characters of a sequence of digits
DigitsText(ds) ==
    LET Digit == << "0", "1", "2", "3", "4", "5", "6", "7", "8", "9",
                    "a", "b", "c", "d", "e", "f" >>
    IN  IF ds = << >> THEN ""
        ELSE Digit[Head(ds) + 1] \o DigitsText(Tail(ds))

RECURSIVE Decimal(_)
\* the digits of n in base ten, without leading zeros
Decimal(n) == IF n < 10 THEN << n >> ELSE Append(Decimal(n \div 10), n % 10)

\* syn::LitInt: an integer literal token, as written in the source
LitInt(prefix, digits, suffix) ==
    [prefix |-> prefix, digits |-> digits, suffix |-> suffix]

RECURSIVE Fold(_, _, _)
Fold(ds, radix, acc) ==
    IF ds = << >> THEN acc ELSE Fold(Tail(ds), radix, (acc * radix) + Head(ds))

\* the number an integer literal denotes
LitValue(l) ==
    LET Radix == CASE l.prefix = "0x" -> 16
                   [] l.prefix = "0o" -> 8
                   [] l.prefix = "0b" -> 2
                   [] OTHER -> 10
    IN  Fold(l.digits, Radix, 0)

\* i.to_string() of syn::LitInt: the token as written, prefix and suffix
\* included
to_string(l) == l.prefix \o DigitsText(l.digits) \o l.suffix

\* interrupt_vector: entry i is `j int_<i>`, for i in 0 .. 264
interrupt_vector_entry(i) == "int_" \o DigitsText(Decimal(i))

\* let wrapper_ident_string = match args.get(0) { .. }
wrapper_ident_string(ident_string, arg) ==
    CASE arg.kind = "int" -> "int_" \o to_string(arg.lit)
      [] arg.kind = "path" -> arg.ident
      [] OTHER -> ident_string

\* format_ident!("{}_handler", ident_string)
handler_ident(ident_string) == ident_string \o "_handler"

\* the `jal {handler_ident}` instructions of the wrapper
WrapperCalls(ident_string) ==
    [k \in 1 .. Len(SelectSeq(interrupt_handler_asm, LAMBDA i : i.op = "call"))
        |-> handler_ident(ident_string)]

\* what #[interrupt_handler(arg)] fn ident() { .. } expands to: symbols,
\* each a Rust function with the body of the user's function `body`, or
\* assembly that calls the symbols `calls`
Expansion(ident_string, arg) ==
    IF build = "nxti"
    THEN { [sym |-> wrapper_ident_string(ident_string, arg), kind |-> "fn",
            body |-> ident_string, calls |-> << >>] }
    ELSE { [sym |-> handler_ident(ident_string), kind |-> "fn",
            body |-> ident_string, calls |-> << >>],
           [sym |-> wrapper_ident_string(ident_string, arg), kind |-> "asm",
            body |-> "", calls |-> WrapperCalls(ident_string)] }

Defined == {d.sym : d \in symtab}

\* the user's functions a jump to symbol sym runs, in order; nothing of
\* the user's if the program does not define sym
Runs(sym) ==
    IF sym \notin Defined THEN << >>
    ELSE LET d == CHOOSE d \in symtab : d.sym = sym IN
         IF d.kind = "fn" THEN << d.body >>
         ELSE [k \in 1 .. Len(d.calls) |->
                  (CHOOSE e \in symtab : e.sym = d.calls[k]).body]

\* the names of the user's functions
Idents == {"isr" \o DigitsText(Decimal(k)) : k \in 1 .. MaxHandlers}

\* literals: ids written in base ten, and the id 16 written 0x10, 16u32
\* and 016
Literals ==
    {LitInt("", Decimal(n), "") : n \in {0, 1, 16, LastVector}}
    \cup {LitInt("0x", << 1, 0 >>, ""), LitInt("", << 1, 6 >>, "u32"),
          LitInt("", << 0, 1, 6 >>, "")}

\* the argument of the attribute: an integer literal, a path, or none
Args ==
    {[kind |-> "int", lit |-> l, ident |-> ""] : l \in Literals}
    \cup {[kind |-> k, lit |-> LitInt("", << >>, ""),
           ident |-> IF k = "path" THEN "TIMER" ELSE ""] : k \in {"none", "path"}}

\* #[interrupt_handler(arg)] unsafe fn ident() { .. } is compiled in
interrupt_handler(ident_string, arg) ==
    /\ build # "direct"
    /\ vtaken = << >>
    /\ Cardinality(uses) < MaxHandlers
    /\ \A u \in uses : u.ident # ident_string
    /\ LET new == Expansion(ident_string, arg) IN
       /\ \A d \in new : d.sym \notin Defined
       /\ Cardinality({d.sym : d \in new}) = Cardinality(new)
       /\ symtab' = symtab \cup new
    /\ uses' = uses \cup {[ident |-> ident_string, arg |-> arg]}
    /\ UNCHANGED <<bootVars, trapVars, asmVars, regVars, vtaken>>

\* the interrupt with id n is dispatched through entry n of the table
vectored(n) ==
    /\ build # "direct"
    /\ vtaken = << >>
    /\ vtaken' = [id |-> n, sym |-> interrupt_vector_entry(n),
                  ran |-> Runs(interrupt_vector_entry(n))]
    /\ UNCHANGED <<bootVars, trapVars, asmVars, regVars, uses, symtab>>

\* the ids dispatched: those the literals denote, and their neighbours
TakenIds == {LitValue(l) : l \in Literals} \cup {2, LastVector - 1}

VecInit ==
    /\ build \in {"clic", "nxti"}
    /\ BootDone
    /\ defaults = TRUE
    /\ attr = [i \in Irqs |-> EdgePositive]
    /\ ip = {} /\ ie = {}
    /\ TrapIdle
    /\ AsmIdle
    /\ RegIdle
    /\ VecIdle

VecNext ==
    \/ \E f \in Idents, a \in Args : interrupt_handler(f, a)
    \/ \E n \in TakenIds : vectored(n)

VecSpec == VecInit /\ [][VecNext]_vars

(* ------------------------------- claims -------------------------------- *)
IsPrefix(s, t) == /\ Len(s) <= Len(t)
                  /\ \A i \in 1 .. Len(s) : s[i] = t[i]

\* the hart has left the election and is at _setup_interrupts or beyond
Passed(h) == pc[h] \in {"setup_interrupts", "main", "in_main"}

Elected == {h \in Harts : ret[h] = "true"}

DataCopied == \A a \in Addr : (sdata <= a /\ a < edata) => mem[a] = sidata(a - sdata)

BssZeroed == \A a \in Addr : (sbss <= a /\ a < ebss) => mem[a] = 0

ElectedSeq(h) ==
    << Ev("mp_hook", hartid[h], 0, 0), Ev("pre_init", 0, 0, 0),
       Ev("zero_bss", sbss, ebss, 0), Ev("init_data", sdata, edata, 0),
       Ev("setup_interrupts", 0, 0, 0), Ev("main", a0[h], a1[h], a2[h]) >>

NonElectedSeq(h) ==
    << Ev("mp_hook", hartid[h], 0, 0), Ev("setup_interrupts", 0, 0, 0),
       Ev("main", a0[h], a1[h], a2[h]) >>

\* C1: a hart for which _mp_hook returned true performs _mp_hook, __pre_init,
\* zero_bss over [_sbss,_ebss), init_data over [_sdata,_edata),
\* _setup_interrupts, main, each once and in this order; it writes no word
\* of .bss/.data before __pre_init, and main is entered only with .bss
\* cleared and .data copied.
C1_ElectedSequence ==
    \A h \in Harts : ret[h] = "true" =>
        /\ IsPrefix(log[h], ElectedSeq(h))
        /\ pc[h] = "in_main" => log[h] = ElectedSeq(h)
        /\ Len(log[h]) =
             CASE pc[h] = "pre_init" -> 1
               [] pc[h] = "zero_bss" -> 2
               [] pc[h] = "zero_bss_loop" -> 3
               [] pc[h] = "init_data" -> 3
               [] pc[h] = "init_data_loop" -> 4
               [] pc[h] = "setup_interrupts" -> 4
               [] pc[h] = "main" -> 5
               [] OTHER -> 6
        /\ \A a \in Addr : h \in writers[a] => Calls(h, "pre_init") = 1
        /\ Calls(h, "main") = 1 => (BssZeroed /\ DataCopied)

C1_Witness ==
    \E h \in Harts :
        /\ ret[h] = "true"
        /\ pc[h] = "in_main"
        /\ sbss < ebss
        /\ sdata < edata
        /\ \A a \in Addr : a < ebss => writers[a] = {h}

\* C2: a hart for which _mp_hook returned false never calls __pre_init and
\* never writes a word of .bss or .data; after the hook it performs
\* _setup_interrupts and then main, and nothing else.
C2_NonElectedSkipsInit ==
    \A h \in Harts : ret[h] = "false" =>
        /\ Passed(h)
        /\ IsPrefix(log[h], NonElectedSeq(h))
        /\ pc[h] = "in_main" => log[h] = NonElectedSeq(h)
        /\ Calls(h, "pre_init") = 0
        /\ \A a \in Addr : h \notin writers[a]

C2_Witness ==
    \E h \in Harts :
        /\ ret[h] = "false"
        /\ pc[h] = "in_main"
        /\ sbss < ebss
        /\ sdata < edata
        /\ \A a \in Addr : writers[a] = {}

\* every hart that is not turned away by _start has called the hook
AllAsked == \A h \in Harts : pc[h] \notin {"reset", "start_rust"}

\* C3: with the default election hook and pairwise distinct hart ids,
\* _mp_hook is called at most once per hart, only the hart with id 0 gets
\* true, and once every hart has asked exactly one hart has got true.
C3_DefaultElection ==
    hook = "default" =>
        /\ \A h \in Harts : Calls(h, "mp_hook") <= 1
        /\ \A h \in Elected : hartid[h] = 0
        /\ Cardinality(Elected) <= 1
        /\ AllAsked => Cardinality(Elected) = 1

C3_Witness ==
    /\ hook = "default"
    /\ AllAsked
    /\ Cardinality(Elected) = 1
    /\ \E h \in Harts : Calls(h, "mp_hook") = 1 /\ hartid[h] # 0

\* .bss and .data are written by elected harts only, each word by one hart
OneWriter ==
    \A a \in Addr : writers[a] \subseteq Elected /\ Cardinality(writers[a]) <= 1

\* an elected hart has finished init_data
InitDone == \E e \in Elected : Passed(e)

C5_ParkedForever ==
    hook = "default" =>
        \A h \in Harts : (Calls(h, "mp_hook") = 1 /\ hartid[h] # 0) =>
            /\ pc[h] \in {"wfi", "woken"}
            /\ ret[h] = "none"
            /\ log[h] = << Ev("mp_hook", hartid[h], 0, 0) >>

C5_Witness ==
    /\ hook = "default"
    /\ \E h \in Harts : hartid[h] # 0 /\ pc[h] = "woken"
    /\ \E e \in Elected : pc[e] = "in_main"

\* C6 as stated: every hart that enters start_rust eventually calls main.
C6_EveryHartReachesMain ==
    \A h \in Harts : (pc[h] = "start_rust") ~> (Calls(h, "main") = 1)

\* C6 amended: every hart for which the election hook returns eventually
\* calls main; no hart calls main more than once, and a hart in main never
\* comes back into start_rust.
C6_ReturnedHartReachesMainOnce ==
    /\ \A h \in Harts : (ret[h] # "none") ~> (pc[h] = "in_main")
    /\ [](\A h \in Harts : /\ Calls(h, "main") <= 1
                           /\ pc[h] = "in_main" <=> Calls(h, "main") = 1)
    /\ [][\A h \in Harts : pc[h] = "in_main" => pc'[h] = "in_main"]_vars

C6_Witness ==
    \E h, e \in Harts :
        /\ ret[h] = "false" /\ pc[h] = "in_main" /\ Calls(h, "main") = 1
        /\ ret[e] = "true" /\ pc[e] = "in_main" /\ Calls(e, "main") = 1

\* C7: main is called with exactly the (a0, a1, a2) start_rust was entered
\* with, on elected and non-elected harts alike.
C7_BootArgsVerbatim ==
    \A h \in Harts : \A i \in 1 .. Len(log[h]) :
        log[h][i].op = "main" =>
            <<log[h][i].x, log[h][i].y, log[h][i].z>> = <<a0[h], a1[h], a2[h]>>

C7_Witness ==
    \E h, e \in Harts :
        /\ ret[h] = "false" /\ pc[h] = "in_main"
        /\ ret[e] = "true" /\ pc[e] = "in_main"
        /\ a0[e] # hartid[e]

\* C8: the id given to the election hook is a0 in an s-mode build and
\* mhartid otherwise; in a machine-mode build the elected hart of the
\* default hook is the one with mhartid 0, whatever its a0.
C8_HartIdSource ==
    \A h \in Harts :
        /\ \A i \in 1 .. Len(log[h]) :
              log[h][i].op = "mp_hook" =>
                  log[h][i].x = (IF smode THEN a0[h] ELSE mhartid(h))
        /\ (~smode /\ hook = "default" /\ ret[h] = "true") => mhartid(h) = 0
        /\ (smode /\ hook = "default" /\ ret[h] = "true") => a0[h] = 0

C8_Witness ==
    /\ ~smode
    /\ hook = "default"
    /\ \E h \in Harts : ret[h] = "true" /\ a0[h] # mhartid(h)
    /\ \E h \in Harts : pc[h] = "wfi" /\ a0[h] = 0

\* C9: a hart whose id is greater than _max_hart_id goes to abort and stays
\* there: it never calls the election hook, __pre_init, _setup_interrupts
\* or main and writes no word of .bss or .data.
C9_AbortAboveMaxHartId ==
    \A h \in Harts : start_hartid(h) > max_hart_id =>
        /\ pc[h] \in {"reset", "abort"}
        /\ log[h] = <<>>
        /\ ret[h] = "none"
        /\ \A a \in Addr : h \notin writers[a]

C9_Witness ==
    /\ max_hart_id = 0
    /\ \E h \in Harts : start_hartid(h) > max_hart_id /\ pc[h] = "abort"
    /\ \E e \in Elected : pc[e] = "in_main"

\* the trap episodes in flight and the one that returned last
Episodes == {stack[k] : k \in 1 .. Len(stack)} \cup {last[k] : k \in 1 .. Len(last)}

\* the episodes whose dispatch has taken place: the handler runs or is over
Dispatched == {f \in Episodes : f.loc \in {"in_handler", "returned", "nxti_exit"}}
                \cup {last[k] : k \in 1 .. Len(last)}

CoreHandlers == {INTERRUPTS[k].handler : k \in 1 .. Len(INTERRUPTS)} \ {"null"}

C11_ExceptionCallsExceptionHandler ==
    \A f \in Episodes : ~f.cause.irq =>
        /\ \A k \in 1 .. Len(f.calls) : f.calls[k].name = "ExceptionHandler"
        /\ f \in Dispatched => f.calls = << Call("ExceptionHandler", 0) >>

\* the trap entries start_trap_rust has dispatched for an interrupt, no CLIC
ModelA == {f \in Dispatched : build = "direct" /\ f.cause.irq}

\* the handler the documentation registers for a core interrupt cause
Registered ==
    [c \in {0, 1, 3, 4, 5, 7, 8, 9, 11} |->
        CASE c = 0 -> "UserSoft" [] c = 1 -> "SupervisorSoft"
          [] c = 3 -> "MachineSoft" [] c = 4 -> "UserTimer"
          [] c = 5 -> "SupervisorTimer" [] c = 7 -> "MachineTimer"
          [] c = 8 -> "UserExternal" [] c = 9 -> "SupervisorExternal"
          [] c = 11 -> "MachineExternal"]

\* C12: without the CLIC, an interrupt with cause code 0, 1, 3, 4, 5, 7, 8,
\* 9 or 11 has exactly the handler registered for that cause called, once
\* and with no argument, DefaultHandler is not called, and when the handler
\* returns start_trap_rust returns.
C12_RegisteredHandlerCalled ==
    \A f \in ModelA : f.cause.code \in DOMAIN Registered =>
        /\ f.calls = << Call(Registered[f.cause.code], 0) >>
        /\ f.loc \in {"in_handler", "returned"}

C12_Witness ==
    /\ build = "direct"
    /\ Len(last) = 1
    /\ last[1].cause.irq
    /\ last[1].cause.code = 3
    /\ last[1].loc = "returned"
    /\ last[1].calls = << Call("MachineSoft", 0) >>

\* C13: without the CLIC, an interrupt whose cause code selects a reserved
\* slot (2, 6, 10) has DefaultHandler invoked; the slot's content is never
\* called through, so no call goes to address 0.
C13_ReservedSlotDefault ==
    /\ \A f \in ModelA : f.cause.code \in {2, 6, 10} =>
          f.calls = << Call("DefaultHandler", 0) >>
    /\ \A f \in Episodes : \A k \in 1 .. Len(f.calls) :
          f.calls[k].name # "null"

C13_Witness ==
    /\ build = "direct"
    /\ At("in_handler")
    /\ Top.cause.irq
    /\ Top.cause.code = 6
    /\ Top.reads = << 6 >>
    /\ Top.calls = << Call("DefaultHandler", 0) >>

\* C14: without the CLIC, an interrupt whose cause code is outside the
\* table (12 or more) has DefaultHandler invoked exactly once; no table
\* entry is read and no specific handler is called.
C14_OutsideTableDefault ==
    \A f \in ModelA : f.cause.code >= 12 =>
        /\ f.calls = << Call("DefaultHandler", 0) >>
        /\ f.reads = << >>

C14_Witness ==
    /\ build = "direct"
    /\ At("in_handler")
    /\ Top.cause.irq
    /\ Top.cause.code >= 12
    /\ Top.calls = << Call("DefaultHandler", 0) >>

\* the episode has entered one of the crate's default handlers
Hung(f) ==
    \E k \in 1 .. Len(f.calls) :
        linked(f.calls[k].name)
            \in {"DefaultExceptionHandler", "DefaultInterruptHandler"}

\* C15: with the default implementations, once DefaultInterruptHandler or
\* DefaultExceptionHandler is entered it never returns: start_trap_rust
\* does not return for that trap and the interrupted context is not resumed.
C15_DefaultHandlerHangs ==
    /\ \A k \in 1 .. Len(last) : ~Hung(last[k])
    /\ \A k \in 1 .. Len(stack) : Hung(stack[k]) =>
          /\ stack[k].loc = "in_handler"
          /\ Len(stack[k].calls) = 1

C15_Witness ==
    /\ defaults
    /\ build = "direct"
    /\ Len(stack) = 2
    /\ stack[1].calls = << Call("DefaultHandler", 0) >>
    /\ stack[2].calls = << Call("ExceptionHandler", 0) >>
    /\ stack[2].loc = "in_handler"

\* the _nxti_trap_handler episodes an interrupt has entered
ModelB == {f \in Episodes : f.saved # << >> /\ f.cause.irq}

\* the episode's loop is over: it reads the zero sentinel or has returned
LoopOver(f) == f.loc = "nxti_exit"

\* the interrupt ids whose handlers the episode has called, in order
CalledIds(f) == [k \in 1 .. Len(f.calls) |-> f.calls[k].n]

\* C16: when no interrupt becomes pending after the loop is entered and the
\* handlers return, the _nxti_trap_handler loop calls a handler in exactly
\* n iterations, n the number of interrupts pending and enabled at loop
\* entry, and the read that ends the loop is the first to return zero.
C16_LoopIterations ==
    nraised = 0 =>
        \A f \in ModelB :
            /\ Len(f.calls) <= Cardinality(f.pend)
            /\ LoopOver(f) => Len(f.calls) = Cardinality(f.pend)
            /\ LoopOver(f) => f.t0 = 0
            /\ f.loc = "nxti_jalr" => f.t0 # 0
            /\ f.loc = "nxti_jalr" => Len(f.calls) < Cardinality(f.pend)

C16_Witness ==
    /\ build = "nxti"
    /\ nraised = 0
    /\ Len(last) = 1
    /\ last[1].cause.irq
    /\ last[1].pend = Irqs
    /\ Len(last[1].calls) = NumIrq
    /\ last[1].t0 = 0

\* a step of the innermost episode from one place of its code to another
LoopStep(from, to) ==
    /\ At(from)
    /\ Len(stack') = Len(stack)
    /\ Top'.loc = to

\* C17: a loop iteration that calls a handler clears exactly one pending
\* bit, that of the interrupt whose handler it calls, which is the highest
\* pending and enabled one, and clears it in the read, before the handler
\* is entered; a read of the zero sentinel clears no pending bit.
C17_OnePendingBitPerIteration ==
    [][ /\ LoopStep("nxti_loop", "nxti_jalr") =>
             \E i \in ip \cap ie :
                 /\ \A j \in ip \cap ie : level(j) <= level(i)
                 /\ ip' = ip \ {i}
                 /\ Top'.t0 = mtvt_entry(i)
        /\ LoopStep("nxti_loop", "nxti_exit") => ip' = ip /\ Top'.t0 = 0
        /\ LoopStep("nxti_jalr", "in_handler") =>
             /\ ip' = ip
             /\ Top'.calls = Append(Top.calls, Call("int", vector_id(Top.t0)))
             /\ Top.t0 = mtvt_entry(vector_id(Top.t0))
        /\ ip \ ip' # {} => At("nxti_loop")
      ]_vars

C17_Witness ==
    /\ build = "nxti"
    /\ At("in_handler")
    /\ Top.pend = Irqs
    /\ Top.calls = << Call("int", NumIrq - 1) >>
    /\ ip = Irqs \ {NumIrq - 1}

\* C18: with a controller of NumIrq interrupts and S the ids pending and
\* enabled at loop entry (nothing raised afterwards), the loop calls the
\* handler of every id of S exactly once and no handler of an id outside
\* S, and the pending, enable and attribute state of every id outside S
\* is as it was at loop entry.
C18_EndToEnd ==
    nraised = 0 =>
        \A f \in ModelB :
            /\ \A k \in 1 .. Len(f.calls) :
                  /\ f.calls[k].name = "int"
                  /\ f.calls[k].n \in f.pend
                  /\ \A m \in 1 .. Len(f.calls) :
                        f.calls[m].n = f.calls[k].n => m = k
            /\ LoopOver(f) =>
                  \A i \in f.pend : \E k \in 1 .. Len(f.calls) : f.calls[k].n = i
            /\ \A i \in Irqs \ f.pend :
                  /\ i \in ip <=> i \in f.entry.ip
                  /\ i \in ie <=> i \in f.entry.ie
                  /\ attr[i] = f.entry.attr[i]

C18_Witness ==
    /\ build = "nxti"
    /\ nraised = 0
    /\ Len(last) = 1
    /\ last[1].cause.irq
    /\ last[1].entry.ip = Irqs
    /\ last[1].pend = {NumIrq - 1}
    /\ last[1].calls = << Call("int", NumIrq - 1) >>
    /\ ip = Irqs \ {NumIrq - 1}
    /\ stack = << >>

\* the instructions of the given kind before the p-th of the code
Before(p, op) == {k \in 1 .. (p - 1) : k <= Len(code) /\ code[k].op = op}

\* all 16 general registers, cause and epc are stored, and nothing is loaded
FrameWhole(p) ==
    /\ Cardinality(Before(p, "sw")) = Len(GprOrder) + 2
    /\ Before(p, "lw") = {}

\* the frame in memory holds the value each register had at trap entry
FrameSaved ==
    /\ \A r \in Gprs : \E k \in 1 .. Len(slog) :
          slog[k].val = ereg[r] /\ fmem[slog[k].slot] = ereg[r]
    /\ \A c \in Csrs : \E k \in 1 .. Len(slog) :
          slog[k].val = ecsr[c] /\ fmem[slog[k].slot] = ecsr[c]

\* C19: in the _nxti_trap_handler trampoline and in the generated wrapper,
\* interrupts are disabled at trap entry, enabled only after the last store
\* of the frame (16 general registers, cause, epc) and disabled again
\* before the first load of the restore; no trap nests while the frame is
\* partly saved or partly restored.
C19_FrameWholeWhileEnabled ==
    prog # "none" =>
        /\ ipc = 1 => ~amie
        /\ (amie /\ ~Over) => FrameWhole(ipc) /\ FrameSaved /\ rlog = << >>
        /\ \A p \in nested_at : FrameWhole(p)
        /\ Over => reg = entry_reg /\ csr = entry_csr

C19_Witness ==
    /\ prog = "wrapper"
    /\ Over
    /\ nested_at # {}
    /\ \A p \in nested_at : code[p].op = "call"
    /\ csr = entry_csr

\* the registers in the order their values were stored
SaveOrder == [k \in 1 .. Len(slog) |-> slog[k].val]

Reverse(s) == [k \in 1 .. Len(s) |-> s[Len(s) + 1 - k]]

\* C20 as stated: the restore sequence of a trap frame is the mirror image
\* of its save sequence (saved r1 .. rk, restored rk .. r1), in the
\* trampoline and in the wrapper.
C20_RestoreMirrorsSave ==
    (prog # "none" /\ Over) => rlog = Reverse(SaveOrder)

\* C20 amended: every register is restored from the slot it was saved to;
\* cause and epc, saved last, are restored first (cause, then epc), then
\* the general registers in the order they were saved (ra first, t6 last).
C20_RestoreFromSavedSlots ==
    (prog # "none" /\ Over) =>
        /\ Len(SaveOrder) = Len(GprOrder) + 2
        /\ rlog = SubSeq(SaveOrder, Len(GprOrder) + 1, Len(GprOrder) + 2)
                    \o SubSeq(SaveOrder, 1, Len(GprOrder))
        /\ SubSeq(SaveOrder, 1, Len(GprOrder)) = GprOrder
        /\ reg = entry_reg
        /\ csr = entry_csr

C20_Witness ==
    /\ prog = "nxti"
    /\ Over
    /\ iters = 1
    /\ nested_at # {}
    /\ rlog[1] = "mcause"
    /\ rlog[Len(rlog)] = "t6"
    /\ slog[1].val = "ra"
    /\ reg = entry_reg

\* the innermost activation stands at its mret
AtMret == IF prog = "none" \/ Over \/ in_h THEN FALSE ELSE cur.op = "mret"

\* C21: whatever traps nest while interrupts are enabled inside a trap
\* episode, each overwriting mcause and mepc, at the mret of the episode
\* mcause and mepc hold the values they had at its entry.
C21_CauseEpcAtMret ==
    /\ AtMret => csr = ecsr
    /\ (prog # "none" /\ Over) => csr = entry_csr
    /\ \A k \in 1 .. Len(outer) :
          outer[k].ecsr = (IF k = 1 THEN entry_csr ELSE NestedCsr(k - 2))

C21_Witness ==
    /\ prog = "nxti"
    /\ AtMret
    /\ outer = << >>
    /\ nested_at # {}
    /\ \A p \in nested_at : code[p].op = "call"
    /\ csr = entry_csr
    /\ reg = entry_reg

\* the sp adjustments the innermost activation has executed
Adjusted == Cardinality(Before(ipc, "addi"))

\* C22: a trap episode adjusts sp once on entry (minus 128 bytes) and once
\* on exit (plus 128 bytes), so that at mret sp is what it was at entry;
\* the frames of the episodes in flight are pairwise disjoint, and a frame
\* is released only when no episode nested on it is in flight.
C22_StackDiscipline ==
    prog # "none" =>
        /\ Adjusted <= 2
        /\ sp = (IF Adjusted = 1 THEN esp - (4 * 32) ELSE esp)
        /\ AtMret => sp = esp
        /\ Over => sp = StackTop
        /\ \A k \in 1 .. Len(outer) :
              /\ Cardinality(Before(outer[k].ipc, "addi")) = 1
              /\ (IF k = Len(outer) THEN esp ELSE outer[k + 1].esp)
                   = outer[k].esp - (4 * 32)
        /\ \A k \in 1 .. Len(slog) :
              /\ esp - (4 * 32) <= slog[k].slot
              /\ slog[k].slot < esp

C22_Witness ==
    /\ prog = "wrapper"
    /\ Len(outer) = 1
    /\ AtMret
    /\ sp = outer[1].esp - (4 * 32)
    /\ outer[1].in_h
    /\ Len(slog) = Len(GprOrder) + 2

(* ---------------------- claims: register accessors --------------------- *)
\* the content of the register of field f in memory m
RegValue(m, f) ==
    IF f.bytes = 4 THEN read_volatile_u32(m[f.base], f.reg_offset)
    ELSE read_volatile_u8(m[f.base], f.reg_offset)

\* v truncated to the width of field f
Truncated(f, v) == v \cap (0 .. (Cardinality(f.mask) - 1))

ControllerField(f) == f.base = "clic"

\* C23: after a write of any value v (also one wider than the field) to a
\* field of the controller, every bit of the register outside the mask is
\* the bit of the content r before the write, and the read that follows
\* returns v truncated to the width of the field; word and byte variants.
C23_RoundTrip ==
    (racc # << >> /\ ControllerField(racc.f)) =>
        /\ RegValue(rmem, racc.f) \ racc.f.mask
               = RegValue(racc.before, racc.f) \ racc.f.mask
        /\ racc.kind = "read" => racc.res = Truncated(racc.f, racc.v)

\* the ids the offset functions are evaluated at: the ids of the modelled
\* registers and the largest id below the largest count CLICINFO can
\* report (NUM_INTERRUPT is 13 bits wide)
LastId == \H1FFF - 1

OffsetIds == Ids \cup {LastId - 1, LastId}

\* the per-interrupt registers of id i as <<name, offset>>
IdRegs(i) ==
    { <<"CLICINTIP", CLICINTIP_REG_OFFSET(i)>>,
      <<"CLICINTIE", CLICINTIE_REG_OFFSET(i)>>,
      <<"CLICINTATTR", CLICINTATTR_REG_OFFSET(i)>>,
      <<"CLICINTCTL", CLICINTCTL_REG_OFFSET(i)>> }

\* the u32 computation of a register offset of id i, carried out without
\* wrapping
Unwrapped(i) == {\H1000 + (\H10 * i) + k : k \in {0, 4, 8, 12}}

\* the bytes an access to field f touches
Touched(f) == f.reg_offset .. (f.reg_offset + f.bytes - 1)

PerId(f) == f.base = "clic" /\ f.reg_offset >= \H1000

\* C24: for ids i < j below the reported count each of the four offset
\* functions is strictly increasing, no register of i shares its offset
\* with a register of j, the four registers of one id are distinct, the
\* u32 computation does not overflow; so a write to a register of one id
\* leaves every other per-interrupt register as it was.
C24_OffsetsInjective ==
    /\ \A i \in OffsetIds :
          /\ Cardinality({r[2] : r \in IdRegs(i)}) = 4
          /\ {r[2] : r \in IdRegs(i)} = Unwrapped(i)
          /\ \A j \in OffsetIds :
                i < j =>
                    /\ \A r \in IdRegs(i), q \in IdRegs(j) :
                          /\ r[2] # q[2]
                          /\ r[1] = q[1] => r[2] < q[2]
    /\ (racc # << >> /\ PerId(racc.f)) =>
          \A g \in Fields :
              (PerId(g) /\ g.reg_offset # racc.f.reg_offset) =>
                  /\ Touched(g) \cap Touched(racc.f) = {}
                  /\ RegValue(rmem, g) = RegValue(racc.before, g)

C24_Witness ==
    /\ racc # << >>
    /\ racc.kind = "read"
    /\ racc.f.reg_offset = CLICINTCTL_REG_OFFSET(MaxId)
    /\ racc.v = 0 .. 7
    /\ RegValue(racc.before, racc.f) = {}
    /\ RegValue(rmem, racc.f) = 0 .. 7

(* ----------------------- claims: zero_bss, init_data ------------------- *)
InBss(a) == sbss <= a /\ a < ebss

InData(a) == sdata <= a /\ a < edata

\* the memory after zero_bss has cleared the words of .bss below p
ClearedTo(p) == [a \in Addr \cup Flash |-> IF InBss(a) /\ a < p THEN 0 ELSE ram0[a]]

\* the words zero_bss has written once it has cleared the words below p
ClearWrites(h, p) == [a \in Addr |-> IF InBss(a) /\ a < p THEN {h} ELSE {}]

\* C25: zero_bss writes zero to every word of [_sbss, _ebss) and to no word
\* outside it; clearing a region an earlier clear has left behind gives
\* the same memory again; with _sbss = _ebss it writes nothing.
C25_ZeroBss ==
    \A h \in Harts :
        /\ pc[h] = "zero_bss_loop" =>
              /\ mem = ClearedTo(ptr[h])
              /\ writers = ClearWrites(h, ptr[h])
              /\ sbss <= ptr[h] /\ ptr[h] <= ebss
        /\ pc[h] = "init_data" =>
              /\ mem = ClearedTo(ebss)
              /\ writers = ClearWrites(h, ebss)
              /\ BssZeroed
              /\ (\A a \in Addr : InBss(a) => ram0[a] = 0) => mem = ram0
              /\ sbss = ebss => (mem = ram0 /\ \A a \in Addr : writers[a] = {})

C25_Witness ==
    \E h \in Harts :
        /\ pc[h] = "init_data"
        /\ ebss - sbss = MaxLen
        /\ sdata < edata
        /\ \A a \in Addr : InBss(a) => ram0[a] = 0 /\ writers[a] = {h}
        /\ mem = ram0

\* the memory after init_data has copied the words of .data below p
CopiedTo(p) ==
    [a \in Addr \cup Flash |->
        IF InData(a) /\ a < p THEN Image(a - sdata) ELSE ClearedTo(ebss)[a]]

CopyWrites(h, p) ==
    [a \in Addr |-> IF (InData(a) /\ a < p) \/ InBss(a) THEN {h} ELSE {}]

\* C26: init_data makes [_sdata, _edata) equal, word for word, to the image
\* at _sidata, for every length; with _sdata = _edata it writes nothing;
\* the image and every word outside [_sdata, _edata) stay as they were.
C26_InitData ==
    \A h \in Harts :
        /\ pc[h] = "init_data_loop" =>
              /\ mem = CopiedTo(ptr[h])
              /\ writers = CopyWrites(h, ptr[h])
        /\ (h \in Elected /\ Passed(h)) =>
              /\ mem = CopiedTo(edata)
              /\ writers = CopyWrites(h, edata)
              /\ DataCopied
              /\ \A a \in Flash : mem[a] = ram0[a]
              /\ \A a \in Addr : ~InData(a) => mem[a] = ClearedTo(ebss)[a]
              /\ sdata = edata => mem = ClearedTo(ebss)

C26_Witness ==
    \E h \in Harts :
        /\ pc[h] = "setup_interrupts"
        /\ h \in Elected
        /\ edata - sdata = MaxLen
        /\ sbss < ebss
        /\ \A a \in Addr : InData(a) => mem[a] = ram0[RamWords + (a - sdata)] /\ mem[a] # ram0[a]
        /\ mem[RamWords - 1] = Unspecified

(* ---------------------- claims: _setup_interrupts ---------------------- *)
\* the hart has executed _setup_interrupts
SetUp(h) == pc[h] \in {"main", "in_main"}

\* C27: every hart that gets past the election hook executes the default
\* _setup_interrupts once, before main. Without clic it writes the trap
\* vector register with the address of _start_trap and mode Direct; with
\* clic it writes mode Clic and the address of _nxti_trap_handler (nxti)
\* or of _start_trap (no nxti), and writes mtvt with the address of
\* interrupt_vector.
C27_SetupInterrupts ==
    \A h \in Harts :
        /\ Calls(h, "setup_interrupts") = (IF SetUp(h) THEN 1 ELSE 0)
        /\ Calls(h, "main") > 0 => SetUp(h)
        /\ pc[h] = "main" => Calls(h, "main") = 0
        /\ ~SetUp(h) => (mtvec[h] = Reset.mtvec /\ mtvt[h] = Reset.mtvt)
        /\ SetUp(h) =>
              IF build = "direct"
              THEN /\ mtvec[h].addr = "_start_trap"
                   /\ mtvec[h].mode = "Direct"
                   /\ mtvt[h] = Reset.mtvt
              ELSE /\ mtvec[h].mode = "Clic"
                   /\ mtvec[h].addr = (IF build = "nxti" THEN "_nxti_trap_handler"
                                       ELSE "_start_trap")
                   /\ mtvt[h] = interrupt_vector

C27_Witness ==
    /\ build = "nxti"
    /\ \E h \in Harts, g \in Harts :
          /\ ret[h] = "true" /\ ret[g] = "false"
          /\ pc[h] = "in_main" /\ pc[g] = "main"
          /\ mtvec[g].addr = "_nxti_trap_handler" /\ mtvt[g] = interrupt_vector
          /\ mtvec[h] = mtvec[g]

\* C28: with nxti the trap vector write of _setup_interrupts sets the
\* sub-mode that selects the nxti path: the sub-mode written differs from
\* the one the clic build without nxti writes.
C28_NxtiSubMode ==
    \A h \in Harts :
        (build = "nxti" /\ SetUp(h)) =>
            mtvec[h].submode # default_setup_interrupts("clic", Reset).mtvec.submode

(* ----------------------- claims: the frame layout ---------------------- *)
\* the frame of the first activation is whole in memory
FirstFrameWhole ==
    /\ prog # "none"
    /\ outer = << >>
    /\ ~Over
    /\ FrameWhole(ipc)

\* the register whose value at trap entry word i of the frame holds
SlotHolds(i, r) == fmem[(esp - (4 * 32)) + (4 * i)] = entry_reg[r]

\* C29 as stated: in the trampoline and in the wrapper, word i of the frame
\* holds the register named by field i of TrapFrame, for i in 0 .. 15.
C29_FrameIsTrapFrame ==
    FirstFrameWhole => \A i \in 0 .. 15 : SlotHolds(i, TrapFrame[i + 1])

\* C29 amended: the trampoline and the wrapper store the same register at
\* word i of the frame, in the order ra, t0, t1, t2, a0 .. a7, t3 .. t6;
\* that is the register named by field i of TrapFrame for i in 0 .. 3 only.
C29_FrameLayoutShared ==
    FirstFrameWhole =>
        \A i \in 0 .. 15 :
            /\ SlotHolds(i, GprOrder[i + 1])
            /\ SlotHolds(i, TrapFrame[i + 1]) <=> i < 4

C29_Witness ==
    /\ FirstFrameWhole
    /\ prog = "wrapper"
    /\ in_h
    /\ SlotHolds(4, "a0")
    /\ SlotHolds(12, "t3")
    /\ TrapFrame[5] = "t3"

(* ---------------------- claims: field descriptors ---------------------- *)
SameRegister(f, g) == f.base = g.base /\ f.reg_offset = g.reg_offset

\* what a read of field g returns from memory m
ReadField(m, g) ==
    IF g.bytes = 4 THEN read(m[g.base], g.reg_offset, g.mask, g.bitoffset)
    ELSE read_byte(m[g.base], g.reg_offset, g.mask, g.bitoffset)

\* C30: the mask of every field descriptor of the interrupt controller and
\* of the timer is a contiguous run of bits whose lowest bit is at the bit
\* offset of the field and whose length is the declared WIDTH where there
\* is one; the masks of distinct fields of one register are disjoint, so
\* a write of a value that fits its field leaves the other fields of the
\* register as they were.
C30_FieldDescriptors ==
    /\ \A f \in Fields :
          /\ f.mask # {}
          /\ f.mask = f.bitoffset .. (f.bitoffset + Cardinality(f.mask) - 1)
          /\ f.mask \subseteq 0 .. ((8 * f.bytes) - 1)
          /\ f.width # 0 => Cardinality(f.mask) = f.width
          /\ \A g \in Fields :
                (SameRegister(f, g) /\ f.name # g.name) => f.mask \cap g.mask = {}
    /\ (racc # << >> /\ racc.v = Truncated(racc.f, racc.v)) =>
          \A g \in Fields :
              (SameRegister(racc.f, g) /\ g.name # racc.f.name) =>
                  ReadField(rmem, g) = ReadField(racc.before, g)

C30_Witness ==
    /\ racc # << >>
    /\ racc.kind = "read"
    /\ racc.f.name = "TIMER_CFG_LO_PVAL"
    /\ racc.v = 0 .. 7
    /\ racc.res = 0 .. 7
    /\ RegValue(racc.before, racc.f) = {}
    /\ RegValue(rmem, racc.f) = 8 .. 15

(* -------------------- claims: the frame is preserved ------------------- *)
\* the stores of a frame went to slots of their own inside the 128 bytes
\* below the sp of its trap entry, and the slots still hold what was stored
FrameIntact(stores, top) ==
    /\ Len(stores) <= Len(GprOrder) + 2
    /\ Cardinality({stores[j].slot : j \in 1 .. Len(stores)}) = Len(stores)
    /\ \A j \in 1 .. Len(stores) :
          /\ top - (4 * 32) <= stores[j].slot /\ stores[j].slot < top
          /\ fmem[stores[j].slot] = stores[j].val

\* C31: in the trampoline and in the wrapper each of the 18 saved values
\* has a slot of its own inside the 128 byte frame; handlers and nested
\* traps leave the frames of the episodes in flight as they were stored;
\* so at mret, at every depth of nesting, every caller-saved general
\* register holds the value it had at the entry of the episode.
C31_RegistersRestored ==
    prog # "none" =>
        /\ FrameIntact(slog, esp)
        /\ \A k \in 1 .. Len(outer) : FrameIntact(outer[k].slog, outer[k].esp)
        /\ AtMret =>
              /\ Len(slog) = Len(GprOrder) + 2
              /\ reg = ereg
              /\ \A r \in Gprs : \E j \in 1 .. Len(GprOrder) :
                    /\ slog[j].val = ereg[r]
                    /\ slog[j].slot = (esp - (4 * 32)) + (4 * (j - 1))
                    /\ GprOrder[j] = r
        /\ Over => reg = entry_reg

C31_Witness ==
    /\ prog = "nxti"
    /\ Len(outer) = 1
    /\ outer[1].in_h
    /\ AtMret
    /\ iters = 1
    /\ reg = ereg
    /\ ereg["t0"] = "entry"
    /\ ereg["a0"] = "a0"
    /\ fmem[(outer[1].esp - (4 * 32)) + 4] = "t0"
    /\ fmem[(esp - (4 * 32)) + 4] = "entry"

(* ------------------ claims: start_trap_rust with clic ------------------ *)
\* the trap entries that go through start_trap_rust in the clic build
ClicTraps == {f \in Episodes : build = "clic" /\ f.saved = <<>>}

RegisteredFor(n) ==
    {u \in uses : u.arg.kind = "int" /\ LitValue(u.arg.lit) = n}

\* C33: entry N of interrupt_vector, N in 0 .. 264, jumps to int_N, no two
\* ids share an entry, and #[interrupt_handler(N)] with an integer literal
\* N defines the symbol int_N (the user's function with nxti, a wrapper
\* that calls <fn>_handler once without), so that the interrupt with id N
\* runs the handler registered for N.
C33_VectorReachesHandler ==
    /\ Cardinality({interrupt_vector_entry(i) : i \in 0 .. LastVector}) = LastVector + 1
    /\ \A n \in TakenIds : \A u \in RegisteredFor(n) :
          /\ interrupt_vector_entry(n) \in Defined
          /\ Runs(interrupt_vector_entry(n)) = << u.ident >>
    /\ vtaken # << >> =>
          \A u \in RegisteredFor(vtaken.id) : vtaken.ran = << u.ident >>

(* --------------------------- claims: liveness -------------------------- *)
\* the calls start_rust makes
StartRustSteps ==
    {"mp_hook", "pre_init", "zero_bss", "init_data", "setup_interrupts", "main"}

\* how far along start_rust a hart is
Position(p) ==
    CASE p = "reset" -> 0
      [] p = "start_rust" -> 1
      [] p \in {"wfi", "woken"} -> 2
      [] p = "pre_init" -> 3
      [] p = "zero_bss" -> 4
      [] p = "zero_bss_loop" -> 5
      [] p = "init_data" -> 6
      [] p = "init_data_loop" -> 7
      [] p = "setup_interrupts" -> 8
      [] p = "main" -> 9
      [] OTHER -> 10

\* C34: with hooks that return and finite sections with start <= end, every
\* hart for which the election hook returns true or false eventually enters
\* main; no call of start_rust is made a second time on the same hart, and
\* no hart ever moves back to an earlier point of the boot sequence.
C34_BootLiveness ==
    /\ \A h \in Harts :
          (ret[h] \in {"true", "false"}) ~> (Calls(h, "main") = 1)
    /\ [](\A h \in Harts : \A op \in StartRustSteps : Calls(h, op) <= 1)
    /\ [][\A h \in Harts : Position(pc[h]) <= Position(pc'[h])]_vars

C34_Witness ==
    \E h, e \in Harts :
        /\ sdata < edata /\ sbss < ebss
        /\ ret[e] = "true" /\ log[e] = ElectedSeq(e) /\ pc[e] = "in_main"
        /\ BssZeroed /\ DataCopied
        /\ ret[h] = "false" /\ log[h] = NonElectedSeq(h) /\ pc[h] = "in_main"

====
